---- MODULE Spec2Model ----
(***************************************************************************)
(* Model of the Minecraft speedrun notifier: the split resolver            *)
(* (src/paceman/client.js), the notification decision, the dedupe store    *)
(* and the run watch loop (src/watcher/run_watcher.js).                    *)
(*                                                                         *)
(* Strings that the code takes apart (milestone keys, field names, clock   *)
(* names) are sequences of one-character strings, so that toCamelCase,     *)
(* toUpperCase and the suffix concatenations are computed, not assumed.    *)
(* JavaScript values are records [t |-> kind, n |-> Int].                  *)
(***************************************************************************)
EXTENDS Integers, Sequences, FiniteSets, TLC

\* ------------------------------------------------------------ JS values

Undefined == [t |-> "undefined", n |-> 0]
Null == [t |-> "null", n |-> 0]
NaN == [t |-> "NaN", n |-> 0]
PosInfinity == [t |-> "Infinity", n |-> 0]
NegInfinity == [t |-> "-Infinity", n |-> 0]
\* a non-empty string
Str == [t |-> "string", n |-> 0]
Num(k) == [t |-> "num", n |-> k]
Bool(b) == [t |-> "bool", n |-> IF b THEN 1 ELSE 0]

\* Number.isFinite(v): a number that is neither NaN nor an infinity, no coercion.
NumberIsFinite(v) == v.t = "num"

\* v == null (loose equality): null or undefined.
IsNullish(v) == v.t \in {"null", "undefined"}

\* !!v
Truthy(v) ==
    CASE v.t = "num" -> v.n # 0
      [] v.t = "bool" -> v.n = 1
      [] v.t \in {"Infinity", "-Infinity", "string"} -> TRUE
      [] OTHER -> FALSE

\* ------------------------------------------------------------ characters

LowerLetters == <<"a","b","c","d","e","f","g","h","i","j","k","l","m",
                  "n","o","p","q","r","s","t","u","v","w","x","y","z">>
UpperLetters == <<"A","B","C","D","E","F","G","H","I","J","K","L","M",
                  "N","O","P","Q","R","S","T","U","V","W","X","Y","Z">>

IndexIn(c, letters) ==
    IF \E i \in 1..Len(letters) : letters[i] = c
    THEN CHOOSE i \in 1..Len(letters) : letters[i] = c
    ELSE 0

\* String.prototype.toUpperCase / toLowerCase, character by character.
UpperChar(c) == IF IndexIn(c, LowerLetters) = 0 THEN c ELSE UpperLetters[IndexIn(c, LowerLetters)]
LowerChar(c) == IF IndexIn(c, UpperLetters) = 0 THEN c ELSE LowerLetters[IndexIn(c, UpperLetters)]
toUpperCase(s) == [i \in 1..Len(s) |-> UpperChar(s[i])]
toLowerCase(s) == [i \in 1..Len(s) |-> LowerChar(s[i])]

\* The string literals of the source.
IGT == <<"I","G","T">>
RTA == <<"R","T","A">>
IgtSuffix == <<"I","g","t">>
RtaSuffix == <<"R","t","a">>
UndefinedText == <<"u","n","d","e","f","i","n","e","d">>

\* s.split("_"): the parts between underscores (at least one part).
RECURSIVE SplitUnderscore(_)
SplitUnderscore(s) ==
    IF \A i \in 1..Len(s) : s[i] # "_"
    THEN <<s>>
    ELSE LET k == CHOOSE i \in 1..Len(s) :
                      s[i] = "_" /\ \A j \in 1..(i-1) : s[j] # "_"
         IN <<SubSeq(s, 1, k-1)>> \o SplitUnderscore(SubSeq(s, k+1, Len(s)))

RECURSIVE JoinParts(_)
JoinParts(parts) ==
    IF parts = <<>> THEN <<>> ELSE Head(parts) \o JoinParts(Tail(parts))

\* part[0]?.toUpperCase() + part.slice(1): an empty part yields "undefined".
CapitalizePart(part) ==
    IF part = <<>> THEN UndefinedText ELSE <<UpperChar(part[1])>> \o Tail(part)

\* Variant: the key is used as it is (camelCase fields are not consulted).
toCamelCase_Identity(s) == s

toCamelCase(s) ==
    IF \A i \in 1..Len(s) : s[i] # "_"
    THEN s
    ELSE LET parts == SplitUnderscore(s)
         IN Head(parts) \o
            JoinParts([i \in 1..(Len(parts)-1) |-> CapitalizePart(parts[i+1])])

\* ------------------------------------------------------------ split resolver

\* A world is the getWorld payload: [present, isLive, data]; data maps field
\* names to JS values. data?.[name]: undefined for a field that is not there.
Field(data, name) == IF name \in DOMAIN data THEN data[name] ELSE Undefined

NoData == [x \in {} |-> Undefined]
NoWorld == [present |-> FALSE, isLive |-> FALSE, data |-> NoData]

\* Variant: the coercing global isFinite(v) in place of Number.isFinite(v), so
\* that null counts as the number 0.
RECURSIVE FirstValid_Coercing(_)
FirstValid_Coercing(candidates) ==
    IF candidates = <<>> THEN Null
    ELSE IF Head(candidates).t = "null" THEN Num(0)
    ELSE IF NumberIsFinite(Head(candidates)) /\ Head(candidates).n >= 0
         THEN Head(candidates)
         ELSE FirstValid_Coercing(Tail(candidates))

\* Variant: the v >= 0 test left out.
RECURSIVE FirstValid_NoSignTest(_)
FirstValid_NoSignTest(candidates) ==
    IF candidates = <<>> THEN Null
    ELSE IF NumberIsFinite(Head(candidates))
         THEN Head(candidates)
         ELSE FirstValid_NoSignTest(Tail(candidates))

\* The first candidate that is a finite number >= 0, else null.
RECURSIVE FirstValid(_)
FirstValid(candidates) ==
    IF candidates = <<>> THEN Null
    ELSE IF NumberIsFinite(Head(candidates)) /\ Head(candidates).n >= 0
         THEN Head(candidates)
         ELSE FirstValid(Tail(candidates))

getSplitMs(world, base, clock) ==
    LET c == toUpperCase(clock)
        camelBase == toCamelCase(base)
        data == IF world.present THEN world.data ELSE NoData
    IN IF c = IGT
       THEN FirstValid(<< Field(data, base),
                          Field(data, base \o IgtSuffix),
                          Field(data, camelBase),
                          Field(data, camelBase \o IgtSuffix) >>)
       ELSE FirstValid(<< Field(data, base \o RtaSuffix),
                          Field(data, camelBase \o RtaSuffix) >>)

\* ------------------------------------------------------------ live feed

\* The milestone keys of the source, as character sequences.
K_nether == <<"n","e","t","h","e","r">>
K_bastion == <<"b","a","s","t","i","o","n">>
K_fortress == <<"f","o","r","t","r","e","s","s">>
K_first_portal == <<"f","i","r","s","t","_","p","o","r","t","a","l">>
K_second_portal == <<"s","e","c","o","n","d","_","p","o","r","t","a","l">>
K_stronghold == <<"s","t","r","o","n","g","h","o","l","d">>
K_end == <<"e","n","d">>
K_finish == <<"f","i","n","i","s","h">>

LIVE_EVENT_BY_MILESTONE ==
    {
        <<K_nether, "rsg.enter_nether">>,
        <<K_bastion, "rsg.enter_bastion">>,
        <<K_fortress, "rsg.enter_fortress">>,
        <<K_first_portal, "rsg.first_portal">>,
        <<K_second_portal, "rsg.second_portal">>,
        <<K_stronghold, "rsg.enter_stronghold">>,
        <<K_end, "rsg.enter_end">>,
        <<K_finish, "rsg.credits">>
    }

\* LIVE_EVENT_BY_MILESTONE[milestone]: "" stands for undefined (no entry).
LiveEventId(milestone) ==
    IF \E p \in LIVE_EVENT_BY_MILESTONE : p[1] = milestone
    THEN (CHOOSE p \in LIVE_EVENT_BY_MILESTONE : p[1] = milestone)[2]
    ELSE ""

\* A live run is [present, eventList]; an event is [eventId, igt, rta].
NoLiveRun == [present |-> FALSE, eventList |-> <<>>]
IgtKey == <<"i","g","t">>
RtaKey == <<"r","t","a">>

\* event?.[key] for the lower-cased clock name.
EventField(event, key) ==
    IF key = IgtKey THEN event.igt
    ELSE IF key = RtaKey THEN event.rta
    ELSE Undefined

getLiveSplitMs(liveRun, milestone, clock) ==
    IF ~liveRun.present THEN Null
    ELSE LET eventId == LiveEventId(milestone)
             list == liveRun.eventList
         IN IF eventId = "" THEN Null
            ELSE IF ~\E i \in 1..Len(list) : list[i].eventId = eventId THEN Null
            ELSE LET k == CHOOSE i \in 1..Len(list) :
                              /\ list[i].eventId = eventId
                              /\ \A j \in 1..(i-1) : list[j].eventId # eventId
                     ms == EventField(list[k], toLowerCase(clock))
                 IN IF NumberIsFinite(ms) /\ ms.n >= 0 THEN ms ELSE Null

\* Variant: the live feed under the primary clock is asked before the snapshot
\* under the fallback clock.
getSplitWithLiveFallback_LiveFirst(world, liveRun, milestone, primaryClock, fallbackClock) ==
    LET primary == getSplitMs(world, milestone, primaryClock)
        fallback == getSplitMs(world, milestone, fallbackClock)
        livePrimary == getLiveSplitMs(liveRun, milestone, primaryClock)
        liveFallback == getLiveSplitMs(liveRun, milestone, fallbackClock)
    IN IF ~IsNullish(primary)
       THEN [ms |-> primary, usedClock |-> primaryClock, source |-> "world"]
       ELSE IF ~IsNullish(livePrimary)
       THEN [ms |-> livePrimary, usedClock |-> primaryClock, source |-> "live"]
       ELSE IF ~IsNullish(fallback)
       THEN [ms |-> fallback, usedClock |-> fallbackClock, source |-> "world"]
       ELSE IF ~IsNullish(liveFallback)
       THEN [ms |-> liveFallback, usedClock |-> fallbackClock, source |-> "live"]
       ELSE [ms |-> Null, usedClock |-> primaryClock, source |-> ""]

\* source: "world", "live" or "" (null).
getSplitWithLiveFallback(world, liveRun, milestone, primaryClock, fallbackClock) ==
    LET primary == getSplitMs(world, milestone, primaryClock)
        fallback == getSplitMs(world, milestone, fallbackClock)
        livePrimary == getLiveSplitMs(liveRun, milestone, primaryClock)
        liveFallback == getLiveSplitMs(liveRun, milestone, fallbackClock)
    IN IF ~IsNullish(primary)
       THEN [ms |-> primary, usedClock |-> primaryClock, source |-> "world"]
       ELSE IF ~IsNullish(fallback)
       THEN [ms |-> fallback, usedClock |-> fallbackClock, source |-> "world"]
       ELSE IF ~IsNullish(livePrimary)
       THEN [ms |-> livePrimary, usedClock |-> primaryClock, source |-> "live"]
       ELSE IF ~IsNullish(liveFallback)
       THEN [ms |-> liveFallback, usedClock |-> fallbackClock, source |-> "live"]
       ELSE [ms |-> Null, usedClock |-> primaryClock, source |-> ""]

\* ------------------------------------------------------------ decision

DEFAULT_THRESHOLD_SEC == 999999

\* Math.floor(ms / 1000) of a number.
FloorSec(ms) == ms.n \div 1000

\* sec < thresholdSec, thresholdSec coerced to a number as JS does.
LessThanJs(sec, thresholdSec) ==
    CASE thresholdSec.t = "num" -> sec < thresholdSec.n
      [] thresholdSec.t = "null" -> sec < 0
      [] thresholdSec.t = "bool" -> sec < thresholdSec.n
      [] thresholdSec.t = "Infinity" -> TRUE
      [] OTHER -> FALSE

\* A parameter with a default: the default replaces undefined only.
WithDefault(v, d) == IF v.t = "undefined" THEN d ELSE v

\* Variant: forceSend is tested before enabled.
shouldNotifyMilestone_ForceFirst(ms, enabledArg, thresholdSecArg, forceSendArg) ==
    LET enabled == WithDefault(enabledArg, Bool(TRUE))
        thresholdSec == WithDefault(thresholdSecArg, Num(DEFAULT_THRESHOLD_SEC))
        forceSend == WithDefault(forceSendArg, Bool(FALSE))
    IN IF IsNullish(ms) THEN FALSE
       ELSE IF Truthy(forceSend) THEN TRUE
       ELSE IF ~Truthy(enabled) THEN FALSE
       ELSE LessThanJs(FloorSec(ms), thresholdSec)

\* Variant: sec <= thresholdSec.
shouldNotifyMilestone_AtThreshold(ms, enabledArg, thresholdSecArg, forceSendArg) ==
    LET enabled == WithDefault(enabledArg, Bool(TRUE))
        thresholdSec == WithDefault(thresholdSecArg, Num(DEFAULT_THRESHOLD_SEC))
        forceSend == WithDefault(forceSendArg, Bool(FALSE))
    IN IF ~Truthy(enabled) THEN FALSE
       ELSE IF IsNullish(ms) THEN FALSE
       ELSE Truthy(forceSend) \/ LessThanJs(FloorSec(ms) - 1, thresholdSec)

\* Variant: no thresholdSec means never notify unless forced.
shouldNotifyMilestone_NoCutoffNever(ms, enabledArg, thresholdSecArg, forceSendArg) ==
    LET enabled == WithDefault(enabledArg, Bool(TRUE))
        forceSend == WithDefault(forceSendArg, Bool(FALSE))
    IN IF ~Truthy(enabled) THEN FALSE
       ELSE IF IsNullish(ms) THEN FALSE
       ELSE Truthy(forceSend)
            \/ (thresholdSecArg.t # "undefined" /\ LessThanJs(FloorSec(ms), thresholdSecArg))

shouldNotifyMilestone(ms, enabledArg, thresholdSecArg, forceSendArg) ==
    LET enabled == WithDefault(enabledArg, Bool(TRUE))
        thresholdSec == WithDefault(thresholdSecArg, Num(DEFAULT_THRESHOLD_SEC))
        forceSend == WithDefault(forceSendArg, Bool(FALSE))
    IN IF ~Truthy(enabled) THEN FALSE
       ELSE IF IsNullish(ms) THEN FALSE
       ELSE Truthy(forceSend) \/ LessThanJs(FloorSec(ms), thresholdSec)

\* Variant: the rule's enabled field is not looked at.
evalMilestone_EnabledIgnored(cfgMilestone, world, liveRun, milestone, primaryClock, fallbackClock, forceSend) ==
    LET thresholdSec == WithDefault(cfgMilestone.thresholdSec, Num(DEFAULT_THRESHOLD_SEC))
        split == getSplitWithLiveFallback(world, liveRun, milestone, primaryClock, fallbackClock)
    IN IF IsNullish(split.ms)
       THEN [action |-> "missing", ms |-> Null, usedClock |-> split.usedClock]
       ELSE IF shouldNotifyMilestone(split.ms, Bool(TRUE), thresholdSec, Bool(forceSend))
       THEN [action |-> "alert", ms |-> split.ms, usedClock |-> split.usedClock]
       ELSE [action |-> "skip", ms |-> split.ms, usedClock |-> split.usedClock]

\* Variant: the split is resolved, and its absence noted, before the enabled
\* test.
evalMilestone_MissingBeforeEnabled(cfgMilestone, world, liveRun, milestone, primaryClock, fallbackClock, forceSend) ==
    LET thresholdSec == WithDefault(cfgMilestone.thresholdSec, Num(DEFAULT_THRESHOLD_SEC))
        enabled == WithDefault(cfgMilestone.enabled, Bool(TRUE))
        split == getSplitWithLiveFallback(world, liveRun, milestone, primaryClock, fallbackClock)
    IN IF IsNullish(split.ms)
       THEN [action |-> "missing", ms |-> Null, usedClock |-> split.usedClock]
       ELSE IF ~Truthy(enabled)
       THEN [action |-> "disabled", ms |-> Null, usedClock |-> primaryClock]
       ELSE IF shouldNotifyMilestone(split.ms, enabled, thresholdSec, Bool(forceSend))
       THEN [action |-> "alert", ms |-> split.ms, usedClock |-> split.usedClock]
       ELSE [action |-> "skip", ms |-> split.ms, usedClock |-> split.usedClock]

\* One pass of the watch loop's body for one milestone: the rule's defaults,
\* the enabled test, the resolution and the decision. action is "disabled",
\* "missing", "alert" (alertOnce is called) or "skip" (not sending).
evalMilestone(cfgMilestone, world, liveRun, milestone, primaryClock, fallbackClock, forceSend) ==
    LET thresholdSec == WithDefault(cfgMilestone.thresholdSec, Num(DEFAULT_THRESHOLD_SEC))
        enabled == WithDefault(cfgMilestone.enabled, Bool(TRUE))
        split == getSplitWithLiveFallback(world, liveRun, milestone, primaryClock, fallbackClock)
    IN IF ~Truthy(enabled)
       THEN [action |-> "disabled", ms |-> Null, usedClock |-> primaryClock]
       ELSE IF IsNullish(split.ms)
       THEN [action |-> "missing", ms |-> Null, usedClock |-> split.usedClock]
       ELSE IF shouldNotifyMilestone(split.ms, enabled, thresholdSec, Bool(forceSend))
       THEN [action |-> "alert", ms |-> split.ms, usedClock |-> split.usedClock]
       ELSE [action |-> "skip", ms |-> split.ms, usedClock |-> split.usedClock]

\* ------------------------------------------------------------ configuration

\* A JSON object is a sequence of <<key, value>> pairs with distinct keys (the
\* order of Object.keys / Object.entries is the order of insertion).
Keys(obj) == [i \in 1..Len(obj) |-> obj[i][1]]
HasKey(obj, k) == \E i \in 1..Len(obj) : obj[i][1] = k
Get(obj, k) == obj[CHOOSE i \in 1..Len(obj) : obj[i][1] = k][2]

\* A milestone rule { thresholdSec, enabled }: a field that is not there is
\* Undefined. obj[k] || {}.
EmptyRule == [enabled |-> Undefined, thresholdSec |-> Undefined]
RuleOf(obj, k) == IF HasKey(obj, k) THEN Get(obj, k) ELSE EmptyRule

\* Variant: a rule of the profile replaces the rule of the defaults whole.
SpreadRules_ReplaceWhole(base, override) ==
    IF override = [enabled |-> Undefined, thresholdSec |-> Undefined] THEN base ELSE override

\* { ...base, ...override }: a field of override that is there wins.
SpreadRules(base, override) ==
    [enabled |-> IF override.enabled # Undefined THEN override.enabled ELSE base.enabled,
     thresholdSec |-> IF override.thresholdSec # Undefined THEN override.thresholdSec
                      ELSE base.thresholdSec]

\* Variant: only the keys of the defaults are taken.
AppendNew_DefaultsOnly(a, b) == a

\* new Set([...a, ...b]) as the sequence of its elements in insertion order.
RECURSIVE AppendNew(_, _)
AppendNew(a, b) ==
    IF b = <<>> THEN a
    ELSE IF \E i \in 1..Len(a) : a[i] = Head(b)
         THEN AppendNew(a, Tail(b))
         ELSE AppendNew(Append(a, Head(b)), Tail(b))

DefaultStreamers == << <<"x","Q","c","O","W">> >>
BuiltinDefaultMilestones ==
    << <<K_nether, [enabled |-> Bool(TRUE), thresholdSec |-> Num(240)]>> >>

\* cfg is [streamers, clock, hasDefaults, defaultMilestones, profiles, quietHours];
\* profiles is an object keyed by streamer name.
buildMilestones(cfg) ==
    LET STREAMERS == IF Len(cfg.streamers) # 0 THEN cfg.streamers ELSE DefaultStreamers
        DEFAULT_MILESTONES ==
            IF cfg.hasDefaults THEN cfg.defaultMilestones ELSE BuiltinDefaultMilestones
        merged(name) ==
            LET profile == IF HasKey(cfg.profiles, name) THEN Get(cfg.profiles, name) ELSE <<>>
                keys == AppendNew(Keys(DEFAULT_MILESTONES), Keys(profile))
            IN [i \in 1..Len(keys) |->
                  <<keys[i], SpreadRules(RuleOf(DEFAULT_MILESTONES, keys[i]),
                                         RuleOf(profile, keys[i]))>>]
    IN [STREAMERS |-> STREAMERS,
        DEFAULT_MILESTONES |-> DEFAULT_MILESTONES,
        STREAMER_MILESTONES |-> [i \in 1..Len(STREAMERS) |-> <<STREAMERS[i], merged(STREAMERS[i])>>]]

\* STREAMER_MILESTONES[streamer] || DEFAULT_MILESTONES
milestonesForStreamer(cfg, streamer) ==
    LET b == buildMilestones(cfg)
    IN IF HasKey(b.STREAMER_MILESTONES, streamer)
       THEN Get(b.STREAMER_MILESTONES, streamer)
       ELSE b.DEFAULT_MILESTONES

\* getClocks: cfg.clock is a string, <<>> when it is absent or empty (both
\* are falsy in cfg.clock || "IGT").
getClocks(cfg) ==
    LET primary == toUpperCase(IF cfg.clock = <<>> THEN IGT ELSE cfg.clock)
    IN [primary |-> primary, fallback |-> IF primary = IGT THEN RTA ELSE IGT]

\* ------------------------------------------------------------ quiet hours

MINUTES_PER_HOUR == 60

\* A time "HH:MM" as the text gives it: wellFormed says whether the trimmed
\* text matches ^(\d{1,2}):(\d{2})$, hh and mm are the numbers it spells.
\* parseHHMMToMinutes returns the minutes since midnight or -1 for null.
parseHHMMToMinutes(s) ==
    IF ~s.wellFormed THEN -1
    ELSE IF s.hh < 0 \/ s.hh > 23 THEN -1
    ELSE IF s.mm < 0 \/ s.mm > 59 THEN -1
    ELSE s.hh * MINUTES_PER_HOUR + s.mm

\* nowMin counts minutes of local time; getHours() * 60 + getMinutes().
MinuteOfDay(nowMin) == nowMin % (24 * MINUTES_PER_HOUR)

\* Variant: the end minute is inside the span.
isTimeInQuietRange_EndInclusive(range, nowMin) ==
    IF ~range.isString THEN FALSE
    ELSE IF Len(range.parts) # 2 THEN FALSE
    ELSE LET a == parseHHMMToMinutes(range.parts[1])
             b == parseHHMMToMinutes(range.parts[2])
             cur == MinuteOfDay(nowMin)
         IN IF a = -1 \/ b = -1 THEN FALSE
            ELSE IF a < b THEN cur >= a /\ cur <= b
            ELSE cur >= a \/ cur <= b

\* Variant: a span whose start equals its end is taken as a normal (empty) span.
isTimeInQuietRange_EmptyWhenEqual(range, nowMin) ==
    IF ~range.isString THEN FALSE
    ELSE IF Len(range.parts) # 2 THEN FALSE
    ELSE LET a == parseHHMMToMinutes(range.parts[1])
             b == parseHHMMToMinutes(range.parts[2])
             cur == MinuteOfDay(nowMin)
         IN IF a = -1 \/ b = -1 THEN FALSE
            ELSE IF a <= b THEN cur >= a /\ cur < b
            ELSE cur >= a \/ cur < b

\* A range is [isString, parts]: parts is range.split("-").
isTimeInQuietRange(range, nowMin) ==
    IF ~range.isString THEN FALSE
    ELSE IF Len(range.parts) # 2 THEN FALSE
    ELSE LET a == parseHHMMToMinutes(range.parts[1])
             b == parseHHMMToMinutes(range.parts[2])
             cur == MinuteOfDay(nowMin)
         IN IF a = -1 \/ b = -1 THEN FALSE
            ELSE IF a < b THEN cur >= a /\ cur < b
            ELSE cur >= a \/ cur < b

\* Variant: every entry of the list has to contain the time.
inQuietHours_Every(quietHours, nowMin, OVERRIDE_QUIET) ==
    IF quietHours.kind = "none" \/ OVERRIDE_QUIET THEN FALSE
    ELSE IF quietHours.kind = "array"
    THEN \A i \in 1..Len(quietHours.ranges) : isTimeInQuietRange(quietHours.ranges[i], nowMin)
    ELSE isTimeInQuietRange(quietHours.ranges[1], nowMin)

\* Variant: the override flag is not looked at.
inQuietHours_IgnoresOverride(quietHours, nowMin, OVERRIDE_QUIET) ==
    IF quietHours.kind = "none" THEN FALSE
    ELSE IF quietHours.kind = "array"
    THEN \E i \in 1..Len(quietHours.ranges) : isTimeInQuietRange(quietHours.ranges[i], nowMin)
    ELSE isTimeInQuietRange(quietHours.ranges[1], nowMin)

\* quietHours is [kind, ranges]: kind "none" (missing, null or ""), "string"
\* (one range) or "array".
inQuietHours(quietHours, nowMin, OVERRIDE_QUIET) ==
    IF quietHours.kind = "none" \/ OVERRIDE_QUIET THEN FALSE
    ELSE IF quietHours.kind = "array"
    THEN \E i \in 1..Len(quietHours.ranges) : isTimeInQuietRange(quietHours.ranges[i], nowMin)
    ELSE isTimeInQuietRange(quietHours.ranges[1], nowMin)

\* ------------------------------------------------------------ dedupe store

\* A key is the sequence of the fields the template string joins with "|"
\* (no field of the inputs holds a "|", so distinct sequences are distinct strings).
DedupeKey(milestone, streamer, runId) == <<milestone, streamer, runId>>
LegacyKey(milestone, usedClock, streamer, runId, sec) ==
    <<milestone, usedClock, streamer, runId, sec>>

\* markIfNew's test: none of the keys is in the seen set.
NoneSeen(seenKeys, keys) == \A i \in 1..Len(keys) : keys[i] \notin seenKeys
\* markIfNew's recording: all the keys are added.
AddAll(seenKeys, keys) == seenKeys \cup {keys[i] : i \in 1..Len(keys)}

\* Variant: only the legacy key (the last of the list) is tested.
markIfNew_LegacyOnly(seenKeys, keys) ==
    IF keys[Len(keys)] \in seenKeys
    THEN [isNew |-> FALSE, seen |-> seenKeys]
    ELSE [isNew |-> TRUE, seen |-> AddAll(seenKeys, keys)]

\* Variant: the keys that are not yet in the set are added also when another
\* key of the list is.
markIfNew_AddsAnyway(seenKeys, keys) ==
    [isNew |-> NoneSeen(seenKeys, keys), seen |-> AddAll(seenKeys, keys)]

\* Variant: one key of the list that is not in the set makes the list new.
markIfNew_AnyUnseen(seenKeys, keys) ==
    IF \E i \in 1..Len(keys) : keys[i] \notin seenKeys
    THEN [isNew |-> TRUE, seen |-> AddAll(seenKeys, keys)]
    ELSE [isNew |-> FALSE, seen |-> seenKeys]

\* Variant: only the first key of the list is tested.
markIfNew_FirstKeyOnly(seenKeys, keys) ==
    IF keys[1] \in seenKeys
    THEN [isNew |-> FALSE, seen |-> seenKeys]
    ELSE [isNew |-> TRUE, seen |-> AddAll(seenKeys, keys)]

\* Variant: the keys are not recorded.
markIfNew_NotRecorded(seenKeys, keys) ==
    [isNew |-> NoneSeen(seenKeys, keys), seen |-> seenKeys]

\* markIfNew up to the write of the file: whether the keys are new, and the
\* seen set afterwards.
markIfNew(seenKeys, keys) ==
    IF NoneSeen(seenKeys, keys)
    THEN [isNew |-> TRUE, seen |-> AddAll(seenKeys, keys)]
    ELSE [isNew |-> FALSE, seen |-> seenKeys]

\* markIfNew with the file: store is [seen, disk], the in-memory set and the
\* keys in sent_keys.json. The whole set is written after the keys were added;
\* a write that throws leaves the file as it was and the keys in the set.
markIfNewStore(store, keys, writeThrows) ==
    LET m == markIfNew(store.seen, keys)
    IN IF ~m.isNew THEN [result |-> "seen", seen |-> m.seen, disk |-> store.disk]
       ELSE IF writeThrows THEN [result |-> "throws", seen |-> m.seen, disk |-> store.disk]
       ELSE [result |-> "new", seen |-> m.seen, disk |-> m.seen]

\* sendNotify's outcome, decided before the delivery is awaited.
sendNotifyStatus(cfg, nowMin, DRY_RUN, OVERRIDE_QUIET) ==
    IF DRY_RUN THEN "dry-run"
    ELSE IF inQuietHours(cfg.quietHours, nowMin, OVERRIDE_QUIET) /\ ~OVERRIDE_QUIET THEN "quiet"
    ELSE "sent"

\* Variant: the quiet hours are looked at before the dry-run flag.
sendNotify_QuietBeforeDryRun(cfg, cfgLoads, nowMin, DRY_RUN, OVERRIDE_QUIET, sendResolves) ==
    IF ~cfgLoads THEN [sends |-> 0, outcome |-> "rejected"]
    ELSE IF inQuietHours(cfg.quietHours, nowMin, OVERRIDE_QUIET) /\ ~OVERRIDE_QUIET
    THEN [sends |-> 0, outcome |-> "quiet"]
    ELSE IF DRY_RUN THEN [sends |-> 0, outcome |-> "dry-run"]
    ELSE [sends |-> 1, outcome |-> IF sendResolves THEN "sent" ELSE "rejected"]

\* sendNotify as a whole: how many times it calls the delivery collaborator
\* (send) and how it ends: it returns its status, or it rejects, when loadCfg
\* throws (cfgLoads is false) or when the delivery it awaits rejects.
sendNotify(cfg, cfgLoads, nowMin, DRY_RUN, OVERRIDE_QUIET, sendResolves) ==
    IF DRY_RUN THEN [sends |-> 0, outcome |-> "dry-run"]
    ELSE IF ~cfgLoads THEN [sends |-> 0, outcome |-> "rejected"]
    ELSE LET status == sendNotifyStatus(cfg, nowMin, DRY_RUN, OVERRIDE_QUIET)
         IN [sends |-> IF status = "sent" THEN 1 ELSE 0,
             outcome |-> IF status = "sent" /\ ~sendResolves THEN "rejected" ELSE status]

\* ------------------------------------------------------------ state

VARIABLES
    call,       \* a call of one of the pure functions: its name and arguments
    ret,        \* the value that call returned (done = FALSE before it returns)
    cfg,        \* the configuration loadCfg() reads (config.json)
    now,        \* the wall clock, in minutes (Date.now() = now * 60000)
    argv,       \* the command-line flags: [force, dryRun, once, noQuiet]
    seen,       \* dedupe store: the in-memory Set of keys
    disk,       \* dedupe store: the keys written to sent_keys.json
    loops,      \* the loopStreamer tasks, by slot
    watches,    \* the watchRun tasks, by slot
    notifyLog,  \* per (streamer, run, milestone): the outcomes of the sendNotify calls
    proc        \* the process: [cfgReadable, uncaught, running]; cfgReadable says
                \* whether config.json can be read and parsed at this moment,
                \* uncaught holds the tasks an exception has escaped from

pureVars == <<call, ret>>
watchVars == <<cfg, now, argv, seen, disk, loops, watches, notifyLog, proc>>
vars == <<call, ret, cfg, now, argv, seen, disk, loops, watches, notifyLog, proc>>

\* ------------------------------------------------------------ calls of the pure functions

\* Bounds of the inputs.
MaxSec == 3
MaxThresholdSec == 3

\* Field names of the snapshot for nether and first_portal, written out.
F_nether == <<"n","e","t","h","e","r">>
F_netherIgt == <<"n","e","t","h","e","r","I","g","t">>
F_netherRta == <<"n","e","t","h","e","r","R","t","a">>
F_first_portal == <<"f","i","r","s","t","_","p","o","r","t","a","l">>
F_first_portalIgt == <<"f","i","r","s","t","_","p","o","r","t","a","l","I","g","t">>
F_first_portalRta == <<"f","i","r","s","t","_","p","o","r","t","a","l","R","t","a">>
F_firstPortal == <<"f","i","r","s","t","P","o","r","t","a","l">>
F_firstPortalIgt == <<"f","i","r","s","t","P","o","r","t","a","l","I","g","t">>
F_firstPortalRta == <<"f","i","r","s","t","P","o","r","t","a","l","R","t","a">>
\* A milestone key with no live event id.
K_boss == <<"b","o","s","s">>

NetherFields == {F_nether, F_netherIgt, F_netherRta}
PortalFields == {F_first_portal, F_first_portalIgt, F_first_portalRta,
                 F_firstPortal, F_firstPortalIgt, F_firstPortalRta}

\* Every kind of stored value: missing, null, not-a-number, the infinities, a
\* string, a negative number, zero, positive numbers.
RichValues == {Undefined, Null, NaN, PosInfinity, NegInfinity, Str,
               Num(-1), Num(0), Num(1), Num(MaxSec * 1000)}
FewValues == {Undefined, Null, Num(-1), Num(0)}

ClockNames == {IGT, RTA, <<"i","g","t">>, <<"r","t","a">>, <<"F","o","o">>}

World(live, data) == [present |-> TRUE, isLive |-> live, data |-> data]

\* Snapshots for nether with every kind of value, and for first_portal with
\* one distinct number per field (so the field a result came from is known).
NetherWorlds == {World(TRUE, d) : d \in [NetherFields -> RichValues]}
PortalValue(f) ==
    CASE f = F_first_portal -> 1
      [] f = F_first_portalIgt -> 2
      [] f = F_firstPortal -> 3
      [] f = F_firstPortalIgt -> 4
      [] f = F_first_portalRta -> 5
      [] f = F_firstPortalRta -> 6
PortalValues(f) == {Undefined, Null, Num(0), Num(PortalValue(f))}
PortalDatas ==
    {[f \in PortalFields |->
        CASE f = F_first_portal -> a
          [] f = F_first_portalIgt -> b
          [] f = F_firstPortal -> c
          [] f = F_firstPortalIgt -> d
          [] f = F_first_portalRta -> e
          [] f = F_firstPortalRta -> g] :
        a \in PortalValues(F_first_portal), b \in PortalValues(F_first_portalIgt),
        c \in PortalValues(F_firstPortal), d \in PortalValues(F_firstPortalIgt),
        e \in PortalValues(F_first_portalRta), g \in PortalValues(F_firstPortalRta)}
PortalWorlds == {World(TRUE, d) : d \in PortalDatas}

Event(id, igt, rta) == [eventId |-> id, igt |-> igt, rta |-> rta]
LiveRun(list) == [present |-> TRUE, eventList |-> list]
EventIds == {"rsg.enter_nether", "rsg.first_portal"}
RichEvents == {Event(id, v, w) : id \in EventIds, v \in RichValues, w \in {Undefined, Num(2)}}
                \cup {Event(id, w, v) : id \in EventIds, v \in RichValues, w \in {Undefined, Num(2)}}
FewEvents == {Event(id, v, w) : id \in EventIds, v \in {Null, Num(7)}, w \in {Null, Num(8)}}
LiveRuns == {NoLiveRun, LiveRun(<<>>)}
              \cup {LiveRun(<<e>>) : e \in RichEvents}
              \cup {LiveRun(<<e, f>>) : e \in FewEvents, f \in FewEvents}

\* Inputs of getSplitWithLiveFallback: one distinct number per place a value
\* can come from.
FallbackWorlds ==
    {NoWorld} \cup
    {World(TRUE, [f \in NetherFields |->
                    CASE f = F_nether -> a [] f = F_netherIgt -> b [] f = F_netherRta -> c]) :
        a \in {Null, Num(11)}, b \in {Undefined, Num(12)}, c \in {Null, Num(0), Num(13)}}
FallbackLiveRuns ==
    {NoLiveRun} \cup
    {LiveRun(<<Event("rsg.enter_nether", v, w)>>) : v \in {Null, Num(21)}, w \in {Undefined, Num(22)}}
ClockPairs == {<<IGT, RTA>>, <<RTA, IGT>>, <<<<"F","o","o">>, IGT>>}

MsValues ==
    {Undefined, Null}
      \cup {Num(sec * 1000 + d) : sec \in 0..MaxSec, d \in {0, 999}}
      \cup {Num((DEFAULT_THRESHOLD_SEC - 1) * 1000 + 999), Num(DEFAULT_THRESHOLD_SEC * 1000)}
EnabledValues == {Undefined, Null, Bool(TRUE), Bool(FALSE)}
ThresholdValues == {Undefined} \cup {Num(k) : k \in 0..MaxThresholdSec}
ForceValues == {Undefined, Bool(TRUE), Bool(FALSE)}
Rules == [enabled : {Undefined, Bool(TRUE), Bool(FALSE)},
          thresholdSec : {Undefined, Num(0), Num(MaxThresholdSec)}]

NoRule == [enabled |-> Undefined, thresholdSec |-> Undefined]

Call(fn, world, liveRun, milestone, clock, fallbackClock, ms, rule, forceSend) ==
    [fn |-> fn, world |-> world, liveRun |-> liveRun, milestone |-> milestone,
     clock |-> clock, fallbackClock |-> fallbackClock, ms |-> ms,
     rule |-> rule, forceSend |-> forceSend]

NoCall == Call("", NoWorld, NoLiveRun, <<>>, <<>>, <<>>, Undefined, NoRule, Undefined)
NoRet == [done |-> FALSE, ms |-> Undefined, usedClock |-> <<>>, source |-> "",
          verdict |-> FALSE, action |-> ""]

Calls ==
    {Call("getSplitMs", w, NoLiveRun, K_nether, c, <<>>, Undefined, NoRule, Undefined) :
        w \in NetherWorlds \cup {NoWorld, World(TRUE, NoData)}, c \in ClockNames}
    \cup
    {Call("getSplitMs", w, NoLiveRun, K_first_portal, c, <<>>, Undefined, NoRule, Undefined) :
        w \in PortalWorlds, c \in {IGT, RTA}}
    \cup
    {Call("getLiveSplitMs", NoWorld, l, m, c, <<>>, Undefined, NoRule, Undefined) :
        l \in LiveRuns, m \in {K_nether, K_first_portal, K_boss}, c \in {IGT, RTA, <<"F","o","o">>}}
    \cup
    {Call("getSplitWithLiveFallback", w, l, m, cp[1], cp[2], Undefined, NoRule, Undefined) :
        w \in FallbackWorlds, l \in FallbackLiveRuns, m \in {K_nether, K_boss}, cp \in ClockPairs}
    \cup
    {Call("shouldNotifyMilestone", NoWorld, NoLiveRun, <<>>, <<>>, <<>>, ms,
          [enabled |-> e, thresholdSec |-> t], f) :
        ms \in MsValues, e \in EnabledValues, t \in ThresholdValues, f \in ForceValues}
    \cup
    {Call("evalMilestone", w, l, K_nether, cp[1], cp[2], Undefined, r, Bool(f)) :
        w \in FallbackWorlds, l \in FallbackLiveRuns, cp \in {<<IGT, RTA>>, <<RTA, IGT>>},
        r \in Rules, f \in BOOLEAN}

\* ------------------------------------------------------------ the watcher: inputs

\* Bounds of the watcher model.
MaxMinutes == 1

POST_RUN_GRACE_MS == 2 * 60000
MS_PER_MINUTE == 60000

S_one == <<"s","1">>
RunIds == {1}
LaterRunIds == {1, 2}
LoopSlots == {1}
WatchSlots == {1, 2}

\* The clock starts one minute before the quiet span 00:30-07:15 ends.
StartMinute == 7 * MINUTES_PER_HOUR + 14

HHMM(h, m) == [wellFormed |-> TRUE, hh |-> h, mm |-> m]
Range(a, b) == [isString |-> TRUE, parts |-> <<a, b>>]
NoQuietHours == [kind |-> "none", ranges |-> <<>>]
NightQuietHours == [kind |-> "string", ranges |-> <<Range(HHMM(0, 30), HHMM(7, 15))>>]

Rule(enabled, thresholdSec) == [enabled |-> enabled, thresholdSec |-> thresholdSec]

\* The base configuration: one streamer, the default clock, nether with a
\* cutoff of 2 s in the defaults, bastion in the profile only and without a
\* cutoff, no quiet hours.
BaseConfig ==
    [streamers |-> <<S_one>>,
     clock |-> <<>>,
     hasDefaults |-> TRUE,
     defaultMilestones |-> << <<K_nether, Rule(Bool(TRUE), Num(2))>> >>,
     profiles |-> << <<S_one, << <<K_bastion, Rule(Bool(TRUE), Undefined)>> >> >> >>,
     quietHours |-> NoQuietHours]

NightConfig == [BaseConfig EXCEPT !.quietHours = NightQuietHours]

\* The files the process can be started with, and the edits of the file that
\* are followed, as <<before, after>>: the clock is switched and switched
\* back; the streamer is removed and added again.
StartConfigs == {BaseConfig, NightConfig}
ConfigEdits ==
    LET rta == [BaseConfig EXCEPT !.clock = <<"r","t","a">>]
        removed == [NightConfig EXCEPT !.streamers = <<>>]
    IN {<<BaseConfig, rta>>, <<rta, BaseConfig>>,
        <<NightConfig, removed>>, <<removed, NightConfig>>}

F_bastion == <<"b","a","s","t","i","o","n">>

\* The snapshots getWorld can return for a run: nothing reached; nether (1.5 s
\* in game, 2.5 s real time) and bastion (2 s) reached.
WatchDatas ==
    {NoData,
     [f \in {F_nether, F_netherRta, F_bastion} |->
        IF f = F_nether THEN Num(1500) ELSE IF f = F_netherRta THEN Num(2500) ELSE Num(2000)]}
WatchWorlds == {World(live, d) : live \in BOOLEAN, d \in WatchDatas}

\* What getLiveRuns and findLiveRunForStreamer yield for the streamer.
WatchLiveRuns == {NoLiveRun, LiveRun(<<Event("rsg.enter_nether", Num(1700), Num(2700))>>)}

\* The flag sets the process can be started with.
Flags(force, dryRun, once, noQuiet) ==
    [force |-> force, dryRun |-> dryRun, once |-> once, noQuiet |-> noQuiet]
FlagSets ==
    {Flags(FALSE, FALSE, FALSE, FALSE),
     Flags(TRUE, FALSE, FALSE, TRUE),
     Flags(FALSE, TRUE, TRUE, FALSE)}

Triples == {<<S_one, r, m>> : r \in LaterRunIds, m \in {K_nether, K_bastion}}

\* ------------------------------------------------------------ the watcher: tasks

\* A loopStreamer task. pc: "free" (no task in the slot), "awaitId" (awaiting
\* getRecentRunId), "awaitWorld" (awaiting getWorld(id)), "sleep", "done".
\* active is state.active, inMap says whether activeLoops holds the task.
FreeLoop == [pc |-> "free", streamer |-> <<>>, active |-> FALSE, inMap |-> FALSE,
             lastRunId |-> 0, id |-> 0]

\* A watchRun task. pc: "free" (no task in the slot: not started, or
\* returned), "awaitWorld" (awaiting getWorld and getLiveRuns), "awaitAlert"
\* (awaiting the delivery that alertOnce awaits in sendNotify), "sleep".
\* postRunUntil is in milliseconds, -1 for null. idx is the next entry of the
\* rule set to evaluate.
NoClocks == [primary |-> <<>>, fallback |-> <<>>]
FreeWatch == [pc |-> "free", streamer |-> <<>>, runId |-> 0, wasLive |-> FALSE,
              postRunUntil |-> -1, world |-> NoWorld, liveRun |-> NoLiveRun,
              rules |-> <<>>, clocks |-> NoClocks, idx |-> 0, missing |-> FALSE]

\* The state of a process started with the given flags and configuration
\* file: the seen file is empty or missing, and main has not yet called
\* syncStreamers.
Started(flags, file) ==
    /\ cfg = file
    /\ now = StartMinute
    /\ argv = flags
    /\ seen = {}
    /\ disk = {}
    /\ proc = [cfgReadable |-> TRUE, uncaught |-> {}, running |-> TRUE]
    /\ loops = [l \in LoopSlots |-> FreeLoop]
    /\ watches = [w \in WatchSlots |-> FreeWatch]
    /\ notifyLog = [t \in Triples |-> <<>>]

InitWatch == \E flags \in FlagSets, file \in StartConfigs : Started(flags, file)

Init ==
    /\ InitWatch
    /\ call = NoCall
    /\ ret = NoRet

\* ------------------------------------------------------------ the pure functions, called

InitPure ==
    /\ call \in Calls
    /\ ret = NoRet
    /\ Started(Flags(FALSE, FALSE, FALSE, FALSE), BaseConfig)

CallGetSplitMs ==
    /\ call.fn = "getSplitMs" /\ ~ret.done
    /\ ret' = [NoRet EXCEPT !.done = TRUE,
                            !.ms = getSplitMs(call.world, call.milestone, call.clock)]
    /\ UNCHANGED <<call, watchVars>>

CallGetLiveSplitMs ==
    /\ call.fn = "getLiveSplitMs" /\ ~ret.done
    /\ ret' = [NoRet EXCEPT !.done = TRUE,
                            !.ms = getLiveSplitMs(call.liveRun, call.milestone, call.clock)]
    /\ UNCHANGED <<call, watchVars>>

CallGetSplitWithLiveFallback ==
    /\ call.fn = "getSplitWithLiveFallback" /\ ~ret.done
    /\ LET r == getSplitWithLiveFallback(call.world, call.liveRun, call.milestone,
                                         call.clock, call.fallbackClock)
       IN ret' = [NoRet EXCEPT !.done = TRUE, !.ms = r.ms,
                               !.usedClock = r.usedClock, !.source = r.source]
    /\ UNCHANGED <<call, watchVars>>

CallShouldNotifyMilestone ==
    /\ call.fn = "shouldNotifyMilestone" /\ ~ret.done
    /\ ret' = [NoRet EXCEPT !.done = TRUE,
                            !.verdict = shouldNotifyMilestone(call.ms, call.rule.enabled,
                                           call.rule.thresholdSec, call.forceSend)]
    /\ UNCHANGED <<call, watchVars>>

CallEvalMilestone ==
    /\ call.fn = "evalMilestone" /\ ~ret.done
    /\ LET r == evalMilestone(call.rule, call.world, call.liveRun, call.milestone,
                              call.clock, call.fallbackClock, Truthy(call.forceSend))
       IN ret' = [NoRet EXCEPT !.done = TRUE, !.ms = r.ms,
                               !.usedClock = r.usedClock, !.action = r.action]
    /\ UNCHANGED <<call, watchVars>>

NextPure ==
    \/ CallGetSplitMs
    \/ CallGetLiveSplitMs
    \/ CallGetSplitWithLiveFallback
    \/ CallShouldNotifyMilestone
    \/ CallEvalMilestone

SpecPure == InitPure /\ [][NextPure]_vars


\* ------------------------------------------------------------ the watcher: actions

MaxLogLen == 2

\* The log of a triple with one more outcome (the log is cut at MaxLogLen).
Logged(log, triple, status) ==
    IF Len(log[triple]) >= MaxLogLen THEN log
    ELSE [log EXCEPT ![triple] = Append(@, status)]

FreeLoopSlots == {l \in LoopSlots : loops[l].pc = "free"}
FreeWatchSlots == {w \in WatchSlots : watches[w].pc = "free"}
MinOf(S) == CHOOSE x \in S : \A y \in S : x <= y

InArray(arr, x) == \E i \in 1..Len(arr) : arr[i] = x

\* The top of watchRun's while loop, up to the call of getWorld: the streamer
\* removed from the configuration ends the task; else the clocks and the rule
\* set are read from the configuration of this moment.
WatchTop(wr) ==
    IF ~InArray(cfg.streamers, wr.streamer)
    THEN FreeWatch
    ELSE [wr EXCEPT !.pc = "awaitWorld",
                    !.clocks = getClocks(cfg),
                    !.rules = milestonesForStreamer(cfg, wr.streamer),
                    !.world = NoWorld, !.liveRun = NoLiveRun,
                    !.idx = 0, !.missing = FALSE]

\* An exception escapes a task: watchRun is called without await and without
\* catch, so its rejection is handled nowhere. What the runtime then does with
\* the process (it goes on after a warning, or it exits) depends on its version
\* and flags.
Escaped(task, running) ==
    [proc EXCEPT !.uncaught = @ \cup {task}, !.running = running]

\* The top of watchRun's while loop as watcher w runs it. loadCfg() stands
\* before the try: when config.json cannot be read or parsed it throws, and
\* watchRun rejects.
WatchLoopTop(w, wr) ==
    IF proc.cfgReadable
    THEN /\ watches' = [watches EXCEPT ![w] = WatchTop(wr)]
         /\ UNCHANGED proc
    ELSE /\ watches' = [watches EXCEPT ![w] = FreeWatch]
         /\ \E goesOn \in BOOLEAN : proc' = Escaped("watchRun", goesOn)

\* A loopStreamer task that returns: its slot stays taken while activeLoops
\* still holds it.
LoopEnd(lr) == IF lr.inMap THEN [lr EXCEPT !.pc = "done", !.id = 0] ELSE FreeLoop

\* The while condition of loopStreamer and the call of getRecentRunId.
LoopTop(lr) == IF lr.active THEN [lr EXCEPT !.pc = "awaitId", !.id = 0] ELSE LoopEnd(lr)

\* syncStreamers: start a loop for every configured streamer that has none,
\* then stop the loops of the streamers that are not configured.
SyncStreamers ==
    /\ proc.running
    /\ IF ~proc.cfgReadable
       THEN /\ proc' = Escaped("syncStreamers", FALSE)
            /\ UNCHANGED loops
       ELSE LET names == {cfg.streamers[i] : i \in 1..Len(cfg.streamers)}
                starters == {n \in names :
                                ~\E l \in LoopSlots : loops[l].inMap /\ loops[l].streamer = n}
                stopped == {l \in LoopSlots : loops[l].inMap /\ loops[l].streamer \notin names}
            IN /\ starters # {} \/ stopped # {}
               /\ Cardinality(starters) <= Cardinality(FreeLoopSlots)
               /\ \E slotOf \in [starters -> FreeLoopSlots] :
                    /\ \A a, b \in starters : slotOf[a] = slotOf[b] => a = b
                    /\ \A a \in starters : \A l \in FreeLoopSlots : l < slotOf[a] =>
                            \E b \in starters : slotOf[b] = l
                    /\ loops' = [l \in LoopSlots |->
                          IF \E n \in starters : slotOf[n] = l
                          THEN [pc |-> "awaitId",
                                streamer |-> CHOOSE n \in starters : slotOf[n] = l,
                                active |-> TRUE, inMap |-> TRUE, lastRunId |-> 0, id |-> 0]
                          ELSE IF l \in stopped
                          THEN (IF loops[l].pc = "done" THEN FreeLoop
                                ELSE [loops[l] EXCEPT !.active = FALSE, !.inMap = FALSE])
                          ELSE loops[l]]
               /\ UNCHANGED proc
    /\ UNCHANGED <<cfg, now, argv, seen, disk, watches, notifyLog, pureVars>>

\* What getRecentRunId can answer: an error (-1), no run (0), or a run id.
RecentRunResults == {-1, 0} \cup RunIds

\* Variant: every run id is taken for a new one.
NewRunId_Any(id, lastRunId) == id # 0

\* if (id && id !== lastRunId)
NewRunId(id, lastRunId) == id # 0 /\ id # lastRunId

\* getRecentRunId answers in loopStreamer with one of the given results. A new
\* run id is remembered as lastRunId before getWorld(id) is called.
GotRecentRunId(l, results) ==
    /\ proc.running
    /\ loops[l].pc = "awaitId"
    /\ \E id \in results :
        loops' = [loops EXCEPT ![l] =
            IF id = -1 THEN [@ EXCEPT !.pc = "sleep"]
            ELSE IF NewRunId(id, @.lastRunId)
            THEN [@ EXCEPT !.pc = "awaitWorld", !.lastRunId = id, !.id = id]
            ELSE [@ EXCEPT !.pc = "sleep"]]
    /\ UNCHANGED <<cfg, now, argv, seen, disk, watches, notifyLog, proc, pureVars>>

LoopGotRecentRunId(l) == GotRecentRunId(l, RecentRunResults)

\* What getWorld(id) can answer in loopStreamer: an error, a run that is not
\* live (or no payload), a live run.
DiscoveryAnswers == {"throw", "notLive", "live"}

\* Variant: every snapshot that arrives counts as live.
DiscoveredLive_AnySnapshot(answer) == answer # "throw"

\* const isLive = !!world?.isLive
DiscoveredLive(answer) == answer = "live"

\* loopStreamer after the given answer of getWorld(id): an error is logged and
\* the loop sleeps; a run that is not live is skipped and the next pass starts
\* at once; a live run starts watchRun, which runs to its first await.
LoopGotWorldAnswer(l, answer) ==
    IF answer = "throw"
    THEN /\ loops' = [loops EXCEPT ![l] = [@ EXCEPT !.pc = "sleep", !.id = 0]]
         /\ UNCHANGED <<watches, proc>>
    ELSE IF ~DiscoveredLive(answer)
    THEN /\ loops' = [loops EXCEPT ![l] = LoopTop(@)]
         /\ UNCHANGED <<watches, proc>>
    ELSE /\ FreeWatchSlots # {}
         /\ WatchLoopTop(MinOf(FreeWatchSlots),
                         [FreeWatch EXCEPT !.streamer = loops[l].streamer,
                                           !.runId = loops[l].id])
         /\ loops' = [loops EXCEPT ![l] =
                IF argv.once THEN LoopEnd(@) ELSE [@ EXCEPT !.pc = "sleep", !.id = 0]]

LoopGotWorld(l) ==
    /\ proc.running
    /\ loops[l].pc = "awaitWorld"
    /\ \E answer \in DiscoveryAnswers : LoopGotWorldAnswer(l, answer)
    /\ UNCHANGED <<cfg, now, argv, seen, disk, notifyLog, pureVars>>

\* The POLL_RECENT_MS timer fires.
LoopWake(l) ==
    /\ proc.running
    /\ loops[l].pc = "sleep"
    /\ loops' = [loops EXCEPT ![l] = LoopTop(@)]
    /\ UNCHANGED <<cfg, now, argv, seen, disk, watches, notifyLog, proc, pureVars>>

\* The decisions of the milestone loop for the entries of the rule set.
Decisions(wr) ==
    [i \in 1..Len(wr.rules) |->
        evalMilestone(wr.rules[i][2], wr.world, wr.liveRun, wr.rules[i][1],
                      wr.clocks.primary, wr.clocks.fallback, argv.force)]

\* Variant: the grace deadline is never looked at.
EndOfTick_NoDeadline(wr, missingEnabledSplit) ==
    IF ~wr.world.isLive
    THEN LET postRunUntil == IF wr.postRunUntil = -1
                             THEN now * MS_PER_MINUTE + POST_RUN_GRACE_MS
                             ELSE wr.postRunUntil
         IN IF ~missingEnabledSplit
            THEN FreeWatch
            ELSE [FreeWatch EXCEPT !.pc = "sleep", !.streamer = wr.streamer,
                                   !.runId = wr.runId, !.wasLive = wr.wasLive,
                                   !.postRunUntil = postRunUntil]
    ELSE [FreeWatch EXCEPT !.pc = "sleep", !.streamer = wr.streamer,
                           !.runId = wr.runId, !.wasLive = wr.wasLive]

\* The end of a tick: the exit test and the sleep.
EndOfTick(wr, missingEnabledSplit) ==
    IF ~wr.world.isLive
    THEN LET postRunUntil == IF wr.postRunUntil = -1
                             THEN now * MS_PER_MINUTE + POST_RUN_GRACE_MS
                             ELSE wr.postRunUntil
         IN IF ~missingEnabledSplit \/ now * MS_PER_MINUTE >= postRunUntil
            THEN FreeWatch
            ELSE [FreeWatch EXCEPT !.pc = "sleep", !.streamer = wr.streamer,
                                   !.runId = wr.runId, !.wasLive = wr.wasLive,
                                   !.postRunUntil = postRunUntil]
    ELSE [FreeWatch EXCEPT !.pc = "sleep", !.streamer = wr.streamer,
                           !.runId = wr.runId, !.wasLive = wr.wasLive]

\* The keys alertOnce hands to markIfNew for entry k of the rule set, whose
\* decision is d.
AlertKeys(wr, k, d) ==
    << DedupeKey(wr.rules[k][1], wr.streamer, wr.runId),
       LegacyKey(wr.rules[k][1], d.usedClock, wr.streamer, wr.runId, FloorSec(d.ms)) >>

\* Variant: alertOnce is called for every resolved split of an enabled entry.
CallsAlertOnce_AnyResolved(d) == d.action \in {"alert", "skip"}

\* alertOnce is called inside if (shouldNotifyMilestone(...)).
CallsAlertOnce(d) == d.action = "alert"

\* Variant: the delivery is called although the write of the key file threw.
WriteThrew_Delivered(st, marked, triple, status) ==
    [watch |-> FreeWatch, seen |-> marked.seen, disk |-> st.disk,
     log |-> Logged(st.log, triple, status)]

\* markIfNew has added the keys to the Set and fs.writeFileSync throws: the
\* exception passes through alertOnce before sendNotify is reached, and the
\* catch of watchRun ends the task.
WriteThrew(st, marked, triple, status) ==
    [watch |-> FreeWatch, seen |-> marked.seen, disk |-> st.disk, log |-> st.log]

\* The milestone loop from entry st.i on, run to its next suspension: the set
\* of the states it can leave. st = [i, missing, seen, disk, log]; ds are the
\* decisions of the tick. An entry that is disabled or not under the cutoff is
\* passed, a missing split is noted. An entry to alert calls alertOnce:
\* markIfNew returns false (go on), or its write of the file throws (the catch
\* of watchRun ends the task), or sendNotify is called; sendNotify throws when
\* it cannot read the configuration (the catch ends the task), or returns
\* "dry-run" or "quiet" without suspending (go on) or awaits the delivery
\* ("awaitAlert"). Past the last entry the tick ends.
RECURSIVE MilestoneLoop(_, _, _)
MilestoneLoop(wr, ds, st) ==
    IF st.i > Len(wr.rules)
    THEN {[watch |-> EndOfTick(wr, st.missing),
           seen |-> st.seen, disk |-> st.disk, log |-> st.log]}
    ELSE IF ds[st.i].action = "missing"
    THEN MilestoneLoop(wr, ds, [st EXCEPT !.i = @ + 1, !.missing = TRUE])
    ELSE IF ~CallsAlertOnce(ds[st.i])
    THEN MilestoneLoop(wr, ds, [st EXCEPT !.i = @ + 1])
    ELSE LET marked == markIfNew(st.seen, AlertKeys(wr, st.i, ds[st.i]))
             triple == <<wr.streamer, wr.runId, wr.rules[st.i][1]>>
             status == sendNotifyStatus(cfg, now, argv.dryRun, argv.noQuiet)
             called == [i |-> st.i + 1, missing |-> st.missing,
                        seen |-> marked.seen, disk |-> marked.seen,
                        log |-> Logged(st.log, triple, status)]
         IN IF ~marked.isNew
            THEN MilestoneLoop(wr, ds, [st EXCEPT !.i = @ + 1])
            ELSE {WriteThrew(st, marked, triple, status)}
                 \cup
                 (IF ~argv.dryRun /\ ~proc.cfgReadable
                  THEN {[watch |-> FreeWatch,
                         seen |-> called.seen, disk |-> called.disk, log |-> st.log]}
                  ELSE IF status = "sent"
                  THEN {[watch |-> [wr EXCEPT !.pc = "awaitAlert", !.idx = called.i,
                                              !.missing = called.missing],
                         seen |-> called.seen, disk |-> called.disk, log |-> called.log]}
                  ELSE MilestoneLoop(wr, ds, called))

\* watchRun goes on with its milestone loop from entry wr.idx.
Evaluate(w, wr) ==
    \E ds \in {Decisions(wr)} :
    \E left \in MilestoneLoop(wr, ds, [i |-> wr.idx, missing |-> wr.missing,
                                      seen |-> seen, disk |-> disk, log |-> notifyLog]) :
        /\ watches' = [watches EXCEPT ![w] = left.watch]
        /\ seen' = left.seen
        /\ disk' = left.disk
        /\ notifyLog' = left.log

\* The POLL_WORLD_MS timer fires: the next pass of the while loop.
WatchWake(w) ==
    /\ proc.running
    /\ watches[w].pc = "sleep"
    /\ WatchLoopTop(w, watches[w])
    /\ UNCHANGED <<cfg, now, argv, seen, disk, loops, notifyLog, pureVars>>

\* Variant: a run never seen live is watched on.
NeverLiveBreak_Absent(wasLive) == FALSE

\* if (!wasLive) break, after wasLive = wasLive || isLive.
NeverLiveBreak(wasLive) == ~wasLive

\* What getWorld(runId) can answer in watchRun: an error, no payload (null),
\* or a snapshot.
WorldAnswers ==
    {[ok |-> FALSE, world |-> NoWorld]}
    \cup {[ok |-> TRUE, world |-> w] : w \in {NoWorld} \cup WatchWorlds}

\* Variant: a missing snapshot is evaluated like an empty one.
WorldMissing_Never(world) == FALSE

\* if (!world)
WorldMissing(world) == ~world.present

\* watchRun after the given answer of getWorld(runId): an error (the catch
\* ends the task), no payload (break), a run never seen live (break), or a
\* snapshot. For a live snapshot getLiveRuns is awaited next (an error leaves
\* liveRun null); the watcher writes nothing that is shared between the two
\* answers, so the step takes both. Then the milestone loop starts.
WatchGotWorldAnswer(w, answer) ==
    IF ~answer.ok \/ WorldMissing(answer.world)
       \/ NeverLiveBreak(watches[w].wasLive \/ answer.world.isLive)
    THEN /\ watches' = [watches EXCEPT ![w] = FreeWatch]
         /\ UNCHANGED <<seen, disk, notifyLog>>
    ELSE \E liveRun \in (IF answer.world.isLive THEN WatchLiveRuns ELSE {NoLiveRun}) :
            Evaluate(w, [watches[w] EXCEPT !.world = answer.world,
                                           !.wasLive = @ \/ answer.world.isLive,
                                           !.liveRun = liveRun, !.idx = 1])

WatchGotWorldFrom(w, answers) ==
    /\ proc.running
    /\ watches[w].pc = "awaitWorld"
    /\ \E answer \in answers : WatchGotWorldAnswer(w, answer)
    /\ UNCHANGED <<cfg, now, argv, loops, proc, pureVars>>

WatchGotWorld(w) == WatchGotWorldFrom(w, WorldAnswers)

\* watchRun after the delivery has answered: it resolves (sendNotify returns
\* "sent" and the milestone loop goes on) or it rejects (the catch of watchRun
\* ends the task).
WatchAlertAnswer(w, delivered) ==
    IF delivered
    THEN Evaluate(w, watches[w])
    ELSE /\ watches' = [watches EXCEPT ![w] = FreeWatch]
         /\ UNCHANGED <<seen, disk, notifyLog>>

WatchAlertDone(w) ==
    /\ proc.running
    /\ watches[w].pc = "awaitAlert"
    /\ \E delivered \in BOOLEAN : WatchAlertAnswer(w, delivered)
    /\ UNCHANGED <<cfg, now, argv, loops, proc, pureVars>>

\* A minute passes, up to the given one.
TickUpTo(lastMinute) ==
    /\ now < lastMinute
    /\ now' = now + 1
    /\ UNCHANGED <<cfg, argv, seen, disk, loops, watches, notifyLog, proc, pureVars>>

Tick == TickUpTo(StartMinute + MaxMinutes)

\* The configuration file is rewritten (the dashboard saves, or by hand).
EditConfig(edits) ==
    /\ \E edit \in edits : edit[1] = cfg /\ cfg' = edit[2]
    /\ UNCHANGED <<now, argv, seen, disk, loops, watches, notifyLog, proc, pureVars>>

ChangeConfig == EditConfig(ConfigEdits)

Next ==
    \/ SyncStreamers
    \/ \E l \in LoopSlots : LoopGotRecentRunId(l)
    \/ \E l \in LoopSlots : LoopGotWorld(l)
    \/ \E l \in LoopSlots : LoopWake(l)
    \/ \E w \in WatchSlots : WatchWake(w)
    \/ \E w \in WatchSlots : WatchGotWorld(w)
    \/ \E w \in WatchSlots : WatchAlertDone(w)
    \/ Tick
    \/ ChangeConfig

Spec == Init /\ [][Next]_vars

\* ------------------------------------------------------------ properties of the pure functions

Returned(fn) == ret.done /\ call.fn = fn

\* A stored value that counts as a split: a finite number >= 0.
ValidSplit(v) == v.t = "num" /\ v.n >= 0

\* Clock names that select the in-game-time fields (upper-cased "IGT").
IgtClockNames == {IGT, <<"i","g","t">>}

\* The snapshot fields of a milestone under a clock, written out per milestone.
OwnFields(milestone, clock) ==
    IF milestone = K_nether
    THEN (IF clock \in IgtClockNames THEN {F_nether, F_netherIgt} ELSE {F_netherRta})
    ELSE IF milestone = K_first_portal
    THEN (IF clock \in IgtClockNames
          THEN {F_first_portal, F_first_portalIgt, F_firstPortal, F_firstPortalIgt}
          ELSE {F_first_portalRta, F_firstPortalRta})
    ELSE {}

\* The values stored in the snapshot of the call under those fields.
OwnValues(milestone, clock) ==
    {Field(IF call.world.present THEN call.world.data ELSE NoData, f) :
        f \in OwnFields(milestone, clock)}

\* C4: shouldNotifyMilestone returns false whenever enabled is false, whatever
\* the split, the threshold and forceSend (forceSend = true included).
C4_DisabledNeverNotifies ==
    (Returned("shouldNotifyMilestone") /\ call.rule.enabled = Bool(FALSE))
        => ret.verdict = FALSE

C4_Witness ==
    /\ Returned("shouldNotifyMilestone")
    /\ call.rule.enabled = Bool(FALSE)
    /\ call.forceSend = Bool(TRUE)
    /\ call.ms = Num(0)
    /\ call.rule.thresholdSec = Num(MaxThresholdSec)
    /\ ret.verdict = FALSE

\* C5: for an enabled milestone with a threshold, a present split notifies
\* exactly when forceSend is true or floor(ms / 1000) < thresholdSec (equal to
\* the threshold does not notify), and an absent split never notifies.
C5_ThresholdStrict ==
    (/\ Returned("shouldNotifyMilestone")
     /\ call.rule.enabled = Bool(TRUE)
     /\ call.rule.thresholdSec.t = "num")
        => /\ call.ms.t = "num" =>
                (ret.verdict <=> (\/ call.forceSend = Bool(TRUE)
                                  \/ call.ms.n \div 1000 < call.rule.thresholdSec.n))
           /\ call.ms \in {Null, Undefined} => ret.verdict = FALSE

C5_Witness ==
    /\ Returned("shouldNotifyMilestone")
    /\ call.rule.enabled = Bool(TRUE)
    /\ call.rule.thresholdSec = Num(2)
    /\ call.ms = Num(2999)
    /\ call.forceSend = Bool(FALSE)
    /\ ret.verdict = FALSE

\* C6 as stated: with no thresholdSec and forceSend false the decision is never
\* to notify, in shouldNotifyMilestone and in the watch loop's evaluation.
C6_NoCutoffNeverNotifies ==
    (/\ ret.done
     /\ call.fn \in {"shouldNotifyMilestone", "evalMilestone"}
     /\ call.rule.thresholdSec = Undefined
     /\ ~Truthy(call.forceSend))
        => /\ ret.verdict = FALSE
           /\ ret.action # "alert"

\* C6 amended: with no thresholdSec and forceSend false the cutoff is 999999 s:
\* an enabled milestone with a present split notifies exactly when
\* floor(ms / 1000) < 999999, in shouldNotifyMilestone and in the watch loop.
C6_NoCutoffIsDefaultCutoff ==
    (/\ ret.done
     /\ call.rule.thresholdSec = Undefined
     /\ ~Truthy(call.forceSend))
        => /\ call.fn = "shouldNotifyMilestone" =>
                (ret.verdict <=> /\ call.rule.enabled \in {Undefined, Bool(TRUE)}
                                 /\ call.ms.t = "num"
                                 /\ call.ms.n \div 1000 < 999999)
           /\ call.fn = "evalMilestone" =>
                (ret.action = "alert" <=> /\ call.rule.enabled \in {Undefined, Bool(TRUE)}
                                          /\ ret.ms.t = "num"
                                          /\ ret.ms.n \div 1000 < 999999)

C6_Witness ==
    /\ Returned("evalMilestone")
    /\ call.rule.thresholdSec = Undefined
    /\ call.rule.enabled = Bool(TRUE)
    /\ ~Truthy(call.forceSend)
    /\ ret.action = "alert"

\* C7: getSplitWithLiveFallback returns the first present value in the order
\* snapshot/primary, snapshot/fallback, live/primary, live/fallback, tagged with
\* its clock and source, else absent; a live value is never returned while the
\* snapshot holds a value under either clock.
C7_ResolutionOrder ==
    Returned("getSplitWithLiveFallback") =>
        LET wp == getSplitMs(call.world, call.milestone, call.clock)
            wf == getSplitMs(call.world, call.milestone, call.fallbackClock)
            lp == getLiveSplitMs(call.liveRun, call.milestone, call.clock)
            lf == getLiveSplitMs(call.liveRun, call.milestone, call.fallbackClock)
        IN /\ wp # Null =>
                ret.ms = wp /\ ret.usedClock = call.clock /\ ret.source = "world"
           /\ (wp = Null /\ wf # Null) =>
                ret.ms = wf /\ ret.usedClock = call.fallbackClock /\ ret.source = "world"
           /\ (wp = Null /\ wf = Null /\ lp # Null) =>
                ret.ms = lp /\ ret.usedClock = call.clock /\ ret.source = "live"
           /\ (wp = Null /\ wf = Null /\ lp = Null /\ lf # Null) =>
                ret.ms = lf /\ ret.usedClock = call.fallbackClock /\ ret.source = "live"
           /\ (wp = Null /\ wf = Null /\ lp = Null /\ lf = Null) =>
                ret.ms = Null /\ ret.source = ""
           /\ ret.source = "live" => (wp = Null /\ wf = Null)

C7_Witness ==
    /\ Returned("getSplitWithLiveFallback")
    /\ call.milestone = K_nether /\ call.clock = IGT /\ call.fallbackClock = RTA
    /\ call.world.present
    /\ call.world.data[F_nether] = Null /\ call.world.data[F_netherIgt] = Undefined
    /\ call.world.data[F_netherRta] = Num(13)
    /\ call.liveRun.present /\ call.liveRun.eventList[1].igt = Num(21)
    /\ ret.ms = Num(13) /\ ret.usedClock = RTA /\ ret.source = "world"

\* C8 as stated: a snapshot field holding the null or the zero sentinel
\* resolves to absent, never to a split of 0 ms, and no notification is decided
\* from such a field.
C8_NullOrZeroIsAbsent ==
    /\ (/\ Returned("getSplitMs")
        /\ OwnValues(call.milestone, call.clock) \subseteq {Undefined, Null, Num(0)})
            => ret.ms = Null
    /\ (/\ Returned("evalMilestone")
        /\ call.world.present
        /\ \A f \in NetherFields : call.world.data[f] \in {Undefined, Null, Num(0)}
        /\ ~call.liveRun.present)
            => ret.action # "alert"

\* C8 amended: a snapshot field holding null (or missing) resolves to absent,
\* never to a split of 0 ms, and no notification is decided from such fields; a
\* field holding the number 0 resolves to a present split of 0 ms.
C8_NullIsAbsentZeroIsSplit ==
    /\ Returned("getSplitMs") =>
        /\ OwnValues(call.milestone, call.clock) \subseteq {Undefined, Null}
                => ret.ms = Null
        /\ ret.ms = Num(0) => Num(0) \in OwnValues(call.milestone, call.clock)
        /\ (/\ OwnValues(call.milestone, call.clock) \subseteq {Undefined, Null, Num(0)}
            /\ Num(0) \in OwnValues(call.milestone, call.clock))
                => ret.ms = Num(0)
    /\ (/\ Returned("evalMilestone")
        /\ call.world.present
        /\ \A f \in NetherFields : call.world.data[f] \in {Undefined, Null}
        /\ ~call.liveRun.present)
            => ret.action \in {"missing", "disabled"}

C8_Witness ==
    /\ Returned("getSplitMs")
    /\ call.milestone = K_nether /\ call.clock = IGT
    /\ call.world.present /\ DOMAIN call.world.data = NetherFields
    /\ call.world.data[F_nether] = Null
    /\ call.world.data[F_netherIgt] = Null
    /\ call.world.data[F_netherRta] = Num(1)
    /\ ret.ms = Null

\* The stored field getLiveSplitMs reads: the field named by the lower-cased
\* clock of the first event of the list with the milestone's event id.
LiveEventsOf(milestone) ==
    LET id == IF milestone = K_nether THEN "rsg.enter_nether"
              ELSE IF milestone = K_first_portal THEN "rsg.first_portal"
              ELSE "none"
    IN SelectSeq(call.liveRun.eventList, LAMBDA e : e.eventId = id)

LiveStored(milestone, clock) ==
    IF ~call.liveRun.present \/ LiveEventsOf(milestone) = <<>> THEN Undefined
    ELSE IF clock = IGT THEN LiveEventsOf(milestone)[1].igt
    ELSE IF clock = RTA THEN LiveEventsOf(milestone)[1].rta
    ELSE Undefined

\* C9: getSplitMs and getLiveSplitMs return a value only when a stored field is
\* a finite number >= 0 (missing, null, NaN, an infinity, a negative number or a
\* non-number is absent), and the returned value is the stored value unchanged.
C9_OnlyFiniteNonNegative ==
    /\ Returned("getSplitMs") =>
        /\ ret.ms # Null =>
            /\ ValidSplit(ret.ms)
            /\ ret.ms \in OwnValues(call.milestone, call.clock)
        /\ ret.ms = Null <=>
            \A v \in OwnValues(call.milestone, call.clock) : ~ValidSplit(v)
    /\ Returned("getLiveSplitMs") =>
        ret.ms = IF ValidSplit(LiveStored(call.milestone, call.clock))
                 THEN LiveStored(call.milestone, call.clock)
                 ELSE Null

C9_Witness ==
    /\ Returned("getSplitMs")
    /\ call.milestone = K_nether /\ call.clock = RTA
    /\ call.world.present /\ DOMAIN call.world.data = NetherFields
    /\ call.world.data[F_netherRta] = Num(-1)
    /\ call.world.data[F_nether] = Num(1)
    /\ ret.ms = Null

\* C10: under clock IGT getSplitMs never takes its result from an Rta-suffixed
\* field, under clock RTA never from the bare or the Igt-suffixed field, and for
\* both clocks the snake_case and the camelCase form of the key are consulted.
C10_ClockSeparation ==
    (Returned("getSplitMs") /\ call.milestone = K_first_portal) =>
        LET d == call.world.data
            own == OwnValues(K_first_portal, call.clock)
        IN /\ ret.ms # Null => ret.ms \in own
           /\ (\A v \in own : ~ValidSplit(v)) => ret.ms = Null
           /\ call.clock = IGT =>
                /\ ValidSplit(d[F_first_portal]) => ret.ms = d[F_first_portal]
                /\ (/\ ValidSplit(d[F_firstPortal])
                    /\ ~ValidSplit(d[F_first_portal])
                    /\ ~ValidSplit(d[F_first_portalIgt])) => ret.ms = d[F_firstPortal]
           /\ call.clock = RTA =>
                /\ ValidSplit(d[F_first_portalRta]) => ret.ms = d[F_first_portalRta]
                /\ (/\ ValidSplit(d[F_firstPortalRta])
                    /\ ~ValidSplit(d[F_first_portalRta])) => ret.ms = d[F_firstPortalRta]

C10_Witness ==
    /\ Returned("getSplitMs")
    /\ call.milestone = K_first_portal /\ call.clock = RTA
    /\ call.world.data[F_first_portal] = Num(1)
    /\ call.world.data[F_firstPortal] = Num(3)
    /\ call.world.data[F_first_portalRta] = Null
    /\ call.world.data[F_firstPortalRta] = Num(6)
    /\ ret.ms = Num(6)

\* ------------------------------------------------------------ properties of the watcher

NetherTriple == <<S_one, 1, K_nether>>
BastionTriple == <<S_one, 1, K_bastion>>

\* The key of a triple <<streamer, run id, milestone>>.
KeyOf(t) == DedupeKey(t[3], t[1], t[2])

\* Watcher w awaits the delivery for the last entry of its rule set, and the
\* first entry (nether) is one to alert in this tick.
DeliveringLastPastNether(w) ==
    /\ watches[w].pc = "awaitAlert"
    /\ watches[w].idx = Len(watches[w].rules) + 1
    /\ watches[w].rules[1][1] = K_nether
    /\ Decisions(watches[w])[1].action = "alert"

\* C1: whatever the ticks, the watchers running at once for the same streamer
\* and run, and the changes of clock or of split between ticks, sendNotify is
\* called at most once for each (streamer, run id, milestone).
C1_AtMostOnce == \A t \in Triples : Len(notifyLog[t]) <= 1

\* Two watchers run for the same streamer and run; one of them is in a tick
\* where nether is to alert and has passed it to deliver bastion, while the one
\* call of sendNotify for nether was suppressed as quiet, that is, made in an
\* earlier segment.
C1_Witness ==
    \E w1, w2 \in WatchSlots :
        /\ w1 # w2
        /\ watches[w2].pc # "free"
        /\ watches[w2].streamer = watches[w1].streamer
        /\ watches[w2].runId = watches[w1].runId
        /\ DeliveringLastPastNether(w1)
        /\ notifyLog[NetherTriple] = <<"quiet">>
        /\ notifyLog[BastionTriple] = <<"sent">>

\* C2: when a tick of a run that was seen live ends, every enabled milestone
\* of the rule set whose split passes shouldNotifyMilestone has had its keys
\* handed to the dedupe store, so that sendNotify was called for it in this
\* tick unless the keys were recorded before.
C2_EveryPassingMilestoneAttempted ==
    [][\A w \in WatchSlots :
        (watches[w].pc = "awaitAlert" /\ watches'[w].pc \in {"sleep", "free"}) =>
            \A i \in 1..Len(watches[w].rules) :
                Decisions(watches[w])[i].action = "alert" =>
                    DedupeKey(watches[w].rules[i][1], watches[w].streamer,
                              watches[w].runId) \in seen']_vars

\* C3: a notification suppressed by quiet hours has its key recorded, and
\* sendNotify never delivers it afterwards.
C3_QuietConsumesKey ==
    \A t \in Triples :
        (\E i \in 1..Len(notifyLog[t]) : notifyLog[t][i] = "quiet") =>
            /\ KeyOf(t) \in seen
            /\ \A i \in 1..Len(notifyLog[t]) : notifyLog[t][i] # "sent"

\* Nether was suppressed as quiet; quiet hours are still configured and have
\* ended by the clock; a tick now finds nether to alert, passes it and delivers
\* bastion.
C3_Witness ==
    /\ cfg.quietHours = NightQuietHours
    /\ ~inQuietHours(cfg.quietHours, now, FALSE)
    /\ ~argv.noQuiet
    /\ notifyLog[NetherTriple] = <<"quiet">>
    /\ \E w \in WatchSlots : DeliveringLastPastNether(w)

\* ------------------------------------------------------------ quiet hours: the texts

Digits == <<"0","1","2","3","4","5","6","7","8","9">>
IsDigit(c) == IndexIn(c, Digits) # 0
DigitValue(c) == IndexIn(c, Digits) - 1

\* Number(text) for a text of one or two digits.
NumberOfDigits(text) ==
    IF Len(text) = 1 THEN DigitValue(text[1])
    ELSE 10 * DigitValue(text[1]) + DigitValue(text[2])

\* s.trim(): the white space at both ends is dropped.
WhiteSpace == {" ", "\t", "\n"}
RECURSIVE Trim(_)
Trim(text) ==
    IF text = <<>> THEN text
    ELSE IF Head(text) \in WhiteSpace THEN Trim(Tail(text))
    ELSE IF text[Len(text)] \in WhiteSpace THEN Trim(SubSeq(text, 1, Len(text) - 1))
    ELSE text

\* raw.match(/^(\d{1,2}):(\d{2})$/) and Number of the two groups: the colon
\* is the third character from the end, one or two digits stand before it and
\* two after it.
MatchHHMM(raw) ==
    LET colon == Len(raw) - 2
        matches == /\ colon \in {2, 3}
                   /\ raw[colon] = ":"
                   /\ \A i \in 1..Len(raw) : i # colon => IsDigit(raw[i])
    IN IF matches
       THEN [wellFormed |-> TRUE,
             hh |-> NumberOfDigits(SubSeq(raw, 1, colon - 1)),
             mm |-> NumberOfDigits(SubSeq(raw, colon + 1, Len(raw)))]
       ELSE [wellFormed |-> FALSE, hh |-> 0, mm |-> 0]

\* range.split("-"): the parts between the dashes (at least one part).
RECURSIVE SplitDash(_)
SplitDash(text) ==
    IF \A i \in 1..Len(text) : text[i] # "-"
    THEN <<text>>
    ELSE LET k == CHOOSE i \in 1..Len(text) :
                      text[i] = "-" /\ \A j \in 1..(i-1) : text[j] # "-"
         IN <<SubSeq(text, 1, k-1)>> \o SplitDash(SubSeq(text, k+1, Len(text)))

\* An entry of quietHours is [isString, text]. The range isTimeInQuietRange
\* works on: whether the entry is a string, and its parts after trim and match.
RangeOfEntry(entry) ==
    IF ~entry.isString THEN [isString |-> FALSE, parts |-> <<>>]
    ELSE LET parts == SplitDash(entry.text)
         IN [isString |-> TRUE,
             parts |-> [i \in 1..Len(parts) |-> MatchHHMM(Trim(parts[i]))]]

\* A Date is counted in seconds of local time; getHours() and getMinutes()
\* drop the seconds.
MinutesOfDate(nowSec) == nowSec \div 60

\* ------------------------------------------------------------ calls of the helpers

MaxSpans == 2
MaxRules == 2

S_two == <<"s","2">>

\* The values a call returns in this part: done and the value.
NotReturned == [done |-> FALSE, value |-> <<>>]
ReturnedValue(v) == [done |-> TRUE, value |-> v]

\* The rules a configuration file gives: all fields, enabled only, the cutoff
\* only, a null cutoff, no field.
CfgRules ==
    {Rule(Bool(TRUE), Num(2)), Rule(Bool(FALSE), Undefined), Rule(Undefined, Num(3)),
     Rule(Bool(TRUE), Null), EmptyRule}

\* The objects with the given keys, in the given order, and rules of CfgRules.
RuleObjects(keys) ==
    {[i \in 1..Len(keys) |-> <<keys[i], rules[i]>>] : rules \in [1..Len(keys) -> CfgRules]}

DefaultKeyLists ==
    {ks \in {<<>>, <<K_nether>>, <<K_nether, K_bastion>>, <<K_nether, K_bastion, K_fortress>>} :
        Len(ks) <= MaxRules}
ProfileKeyLists ==
    {ks \in {<<>>, <<K_nether>>, <<K_fortress>>, <<K_fortress, K_nether>>} : Len(ks) <= MaxRules}

DefaultObjects == UNION {RuleObjects(ks) : ks \in DefaultKeyLists}
ProfileObjects == UNION {RuleObjects(ks) : ks \in ProfileKeyLists}

\* The configurations buildMilestones is called with: no streamer, one or two;
\* defaultMilestones there or not; a profile for the first streamer or none.
BuildConfigs ==
    {[streamers |-> st, clock |-> <<>>, hasDefaults |-> TRUE, defaultMilestones |-> d,
      profiles |-> pr, quietHours |-> NoQuietHours] :
        st \in {<<>>, <<S_one>>, <<S_one, S_two>>},
        d \in DefaultObjects,
        pr \in {<<>>} \cup {<< <<S_one, p>> >> : p \in ProfileObjects}}
    \cup
    {[streamers |-> <<S_one>>, clock |-> <<>>, hasDefaults |-> FALSE, defaultMilestones |-> <<>>,
      profiles |-> << <<S_one, p>> >>, quietHours |-> NoQuietHours] :
        p \in ProfileObjects}

BuildCalls == {[fn |-> "buildMilestones", cfg |-> c] : c \in BuildConfigs}

CallBuildMilestones ==
    /\ call.fn = "buildMilestones" /\ ~ret.done
    /\ ret' = ReturnedValue(buildMilestones(call.cfg))
    /\ UNCHANGED <<call, watchVars>>

\* A number below 100 written with two digits, and a time of day as text:
\* "07:15", or "7:15" in the short form.
TwoDigits(n) == <<Digits[(n \div 10) + 1], Digits[(n % 10) + 1]>>
TimeText(t, form) ==
    LET hours == IF form = "short" /\ t[1] < 10 THEN <<Digits[t[1] + 1]>> ELSE TwoDigits(t[1])
        text == hours \o <<":">> \o TwoDigits(t[2])
    IN IF form = "spaced" THEN <<" ">> \o text \o <<" ">> ELSE text
SpanText(a, b, form) == TimeText(a, form) \o <<"-">> \o TimeText(b, form)

TextEntry(text) == [isString |-> TRUE, text |-> text]
\* A quietHours entry that is no string (a number, null, an object).
NoTextEntry == [isString |-> FALSE, text |-> <<>>]

\* Times of day <<hours, minutes>> and the minute of the day they name.
Times == {<<0, 0>>, <<0, 30>>, <<7, 15>>, <<12, 0>>, <<23, 0>>, <<23, 59>>}
MinuteOfTime(t) == t[1] * MINUTES_PER_HOUR + t[2]
MinutesPerDay == 24 * MINUTES_PER_HOUR
TextForms == {"plain", "short", "spaced"}

\* Instants, in seconds: the first and the last second of the minute before,
\* of the minute of and of the minute after each time, today and tomorrow.
Instants ==
    {(day * MinutesPerDay + ((MinuteOfTime(t) + MinutesPerDay + d) % MinutesPerDay)) * 60 + sec :
        t \in Times, d \in {-1, 0, 1}, sec \in {0, 59}, day \in {0, 1}}

\* A span with what it means: whether it is well formed, and its start and end
\* minute.
Span(text, ok, start, end) ==
    [entry |-> text, ok |-> ok, start |-> start, end |-> end]
WellFormedSpans ==
    {Span(TextEntry(SpanText(a, b, form)), TRUE, MinuteOfTime(a), MinuteOfTime(b)) :
        a \in Times, b \in Times, form \in TextForms}

\* Malformed entries: no time at all, one part, three parts, an hour above 23,
\* a minute above 59, a minute of one digit, an hour of three digits, no string.
MalformedSpans ==
    {Span(TextEntry(<<"n","o","p","e">>), FALSE, 0, 0),
     Span(TextEntry(TimeText(<<12, 0>>, "plain")), FALSE, 0, 0),
     Span(TextEntry(SpanText(<<12, 0>>, <<14, 0>>, "plain") \o <<"-">> \o
                    TimeText(<<15, 0>>, "plain")), FALSE, 0, 0),
     Span(TextEntry(SpanText(<<25, 0>>, <<26, 0>>, "plain")), FALSE, 0, 0),
     Span(TextEntry(SpanText(<<0, 0>>, <<24, 0>>, "plain")), FALSE, 0, 0),
     Span(TextEntry(SpanText(<<7, 60>>, <<23, 0>>, "plain")), FALSE, 0, 0),
     Span(TextEntry(<<"7",":","5","-","2","3",":","0","0">>), FALSE, 0, 0),
     Span(TextEntry(<<"0","0","7",":","1","5","-","2","3",":","0","0">>), FALSE, 0, 0),
     Span(NoTextEntry, FALSE, 0, 0)}

RangeCalls ==
    {[fn |-> "isTimeInQuietRange", span |-> sp, nowSec |-> t] :
        sp \in WellFormedSpans \cup MalformedSpans, t \in Instants}

CallIsTimeInQuietRange ==
    /\ call.fn = "isTimeInQuietRange" /\ ~ret.done
    /\ ret' = ReturnedValue(isTimeInQuietRange(RangeOfEntry(call.span.entry),
                                              MinutesOfDate(call.nowSec)))
    /\ UNCHANGED <<call, watchVars>>

\* The entries the lists are made of, and the instants the lists are asked at.
ListSpans ==
    {sp \in WellFormedSpans :
        /\ sp.entry.text \in {SpanText(<<23, 0>>, <<7, 15>>, "plain"),
                              SpanText(<<7, 15>>, <<12, 0>>, "plain"),
                              SpanText(<<12, 0>>, <<12, 0>>, "plain")}}
    \cup MalformedSpans
ListInstants == {t \in Instants : t % 60 = 0 /\ t < MinutesPerDay * 60}

SpanLists == UNION {[1..n -> ListSpans] : n \in 0..MaxSpans}

\* The quietHours value of the configuration as inQuietHours takes it: absent
\* (missing or null), one string (the empty string is falsy), or a list.
QuietHoursOf(kind, spans) ==
    IF kind = "absent" THEN NoQuietHours
    ELSE IF kind = "string"
    THEN (IF spans[1].entry.isString /\ spans[1].entry.text = <<>>
          THEN NoQuietHours
          ELSE [kind |-> "string", ranges |-> <<RangeOfEntry(spans[1].entry)>>])
    ELSE [kind |-> "array", ranges |-> [i \in 1..Len(spans) |-> RangeOfEntry(spans[i].entry)]]

EmptyText == Span(TextEntry(<<>>), FALSE, 0, 0)

QuietValues ==
    {[kind |-> "absent", spans |-> <<>>]}
    \cup {[kind |-> "string", spans |-> <<sp>>] : sp \in ListSpans \cup {EmptyText}}
    \cup {[kind |-> "array", spans |-> l] : l \in SpanLists}

QuietCalls ==
    {[fn |-> "inQuietHours", quiet |-> q, nowSec |-> t, override |-> o] :
        q \in QuietValues, t \in ListInstants, o \in BOOLEAN}

CallInQuietHours ==
    /\ call.fn = "inQuietHours" /\ ~ret.done
    /\ ret' = ReturnedValue(inQuietHours(QuietHoursOf(call.quiet.kind, call.quiet.spans),
                                        MinutesOfDate(call.nowSec), call.override))
    /\ UNCHANGED <<call, watchVars>>

\* sendNotify is called with the configuration of the moment, the flags, and a
\* delivery that resolves or rejects.
NotifyCalls ==
    {[fn |-> "sendNotify", quiet |-> q, nowSec |-> t, dryRun |-> d, override |-> o,
      sendResolves |-> r, cfgLoads |-> l] :
        q \in {v \in QuietValues : Len(v.spans) <= 1}, t \in ListInstants,
        d \in BOOLEAN, o \in BOOLEAN, r \in BOOLEAN, l \in BOOLEAN}

CallSendNotify ==
    /\ call.fn = "sendNotify" /\ ~ret.done
    /\ ret' = ReturnedValue(
                sendNotify([BaseConfig EXCEPT !.quietHours =
                                QuietHoursOf(call.quiet.kind, call.quiet.spans)],
                           call.cfgLoads, MinutesOfDate(call.nowSec), call.dryRun, call.override,
                           call.sendResolves))
    /\ UNCHANGED <<call, watchVars>>

\* markIfNew is called several times in a row, each time with a list of keys;
\* the write of the file at the end of a call succeeds or throws.
Key_new == DedupeKey(K_nether, S_one, 1)
Key_legacy == LegacyKey(K_nether, <<"i", "g", "t">>, S_one, 1, 2)
Key_other == DedupeKey(K_bastion, S_one, 1)
MarkKeys == {Key_new, Key_legacy, Key_other}
KeyLists == {<<k>> : k \in MarkKeys} \cup {<<k, l>> : k, l \in MarkKeys}
CallCounts == {2, 3}
MarkCalls ==
    {[fn |-> "markIfNew", seen |-> s0, keyLists |-> ls, writeThrows |-> w] :
        s0 \in {{}, {Key_other}},
        ls \in UNION {[1..n -> KeyLists] : n \in CallCounts},
        w \in SUBSET (1..2)}

\* What one call gives its caller: true, false, or the exception of the write.
\* The keys are in the seen set before the write.
RECURSIVE MarkAll(_, _, _, _)
MarkAll(seenKeys, keyLists, writeThrows, i) ==
    IF i > Len(keyLists) THEN <<>>
    ELSE LET m == markIfNew(seenKeys, keyLists[i])
             r == IF ~m.isNew THEN "seen"
                  ELSE IF i \in writeThrows THEN "throws" ELSE "new"
         IN <<r>> \o MarkAll(m.seen, keyLists, writeThrows, i + 1)

CallMarkIfNew ==
    /\ call.fn = "markIfNew" /\ ~ret.done
    /\ ret' = ReturnedValue(MarkAll(call.seen, call.keyLists, call.writeThrows, 1))
    /\ UNCHANGED <<call, watchVars>>

\* markIfNew called once on a store: the set holds what was loaded from the
\* file and the keys of earlier calls, also of those whose write threw.
Stores == {[seen |-> sn, disk |-> d] : sn \in SUBSET MarkKeys, d \in SUBSET MarkKeys}
StoreCalls ==
    {[fn |-> "markIfNewStore", store |-> st, keys |-> ks, writeThrows |-> w] :
        st \in {x \in Stores : x.disk \subseteq x.seen}, ks \in KeyLists, w \in BOOLEAN}

CallMarkIfNewStore ==
    /\ call.fn = "markIfNewStore" /\ ~ret.done
    /\ ret' = ReturnedValue(markIfNewStore(call.store, call.keys, call.writeThrows))
    /\ UNCHANGED <<call, watchVars>>

InitHelpers ==
    /\ \/ call \in BuildCalls
       \/ call \in RangeCalls
       \/ call \in QuietCalls
       \/ call \in NotifyCalls
       \/ call \in MarkCalls
       \/ call \in StoreCalls
    /\ ret = NotReturned
    /\ Started(Flags(FALSE, FALSE, FALSE, FALSE), BaseConfig)

NextHelpers ==
    \/ CallBuildMilestones
    \/ CallIsTimeInQuietRange
    \/ CallInQuietHours
    \/ CallSendNotify
    \/ CallMarkIfNew
    \/ CallMarkIfNewStore

SpecHelpers == InitHelpers /\ [][NextHelpers]_vars

\* ------------------------------------------------------------ properties of the helpers

BuildReturned == call.fn = "buildMilestones" /\ ret.done

KeySet(object) == {object[i][1] : i \in 1..Len(object)}

\* The streamers, default rules and profile a configuration file gives, read
\* off the file.
ConfiguredStreamerList(c) == IF c.streamers = <<>> THEN DefaultStreamers ELSE c.streamers
DefaultKeysOf(c) == IF c.hasDefaults THEN KeySet(c.defaultMilestones) ELSE {K_nether}
ProfileKeysOf(c, name) ==
    UNION {KeySet(c.profiles[i][2]) : i \in {j \in 1..Len(c.profiles) : c.profiles[j][1] = name}}

\* C11: for every configured streamer, buildMilestones returns a rule set whose
\* keys are exactly the default milestone keys together with the keys of that
\* streamer's profile, each key once.
C11_KeysAreDefaultsAndProfile ==
    BuildReturned =>
        LET sm == ret.value.STREAMER_MILESTONES
            names == ConfiguredStreamerList(call.cfg)
        IN /\ Len(sm) = Len(names)
           /\ \A i \in 1..Len(sm) :
                /\ sm[i][1] = names[i]
                /\ KeySet(sm[i][2]) = DefaultKeysOf(call.cfg) \cup ProfileKeysOf(call.cfg, names[i])
                /\ Cardinality(KeySet(sm[i][2])) = Len(sm[i][2])

\* A milestone that only the profile names (fortress) is in the streamer's rule
\* set, next to a default milestone the profile does not name.
C11_Witness ==
    /\ BuildReturned
    /\ K_fortress \in ProfileKeysOf(call.cfg, S_one)
    /\ K_fortress \notin DefaultKeysOf(call.cfg)
    /\ K_bastion \in DefaultKeysOf(call.cfg)
    /\ K_bastion \notin ProfileKeysOf(call.cfg, S_one)
    /\ \E i \in 1..Len(ret.value.STREAMER_MILESTONES) :
          /\ ret.value.STREAMER_MILESTONES[i][1] = S_one
          /\ {K_fortress, K_bastion} \subseteq KeySet(ret.value.STREAMER_MILESTONES[i][2])

\* The rule a configuration file gives a milestone by default and in a
\* streamer's profile, read off the file; CfgNoRule when it gives none.
CfgNoRule == [enabled |-> Undefined, thresholdSec |-> Undefined]
RulesNamed(object, key) == {object[i][2] : i \in {j \in 1..Len(object) : object[j][1] = key}}
DefaultRuleOf(c, key) ==
    IF ~c.hasDefaults
    THEN (IF key = K_nether THEN [enabled |-> Bool(TRUE), thresholdSec |-> Num(240)] ELSE CfgNoRule)
    ELSE IF RulesNamed(c.defaultMilestones, key) = {} THEN CfgNoRule
    ELSE CHOOSE r \in RulesNamed(c.defaultMilestones, key) : TRUE
ProfileRuleOf(c, name, key) ==
    LET rs == UNION {RulesNamed(c.profiles[i][2], key) :
                        i \in {j \in 1..Len(c.profiles) : c.profiles[j][1] = name}}
    IN IF rs = {} THEN CfgNoRule ELSE CHOOSE r \in rs : TRUE

\* C12: in every rule buildMilestones returns for a streamer, enabled is the
\* profile's enabled when the profile gives one and the default's otherwise, and
\* thresholdSec is the profile's thresholdSec when the profile gives one and the
\* default's otherwise.
C12_MergeFieldByField ==
    BuildReturned =>
        \A i \in 1..Len(ret.value.STREAMER_MILESTONES) :
            LET name == ret.value.STREAMER_MILESTONES[i][1]
                rules == ret.value.STREAMER_MILESTONES[i][2]
            IN \A j \in 1..Len(rules) :
                  LET d == DefaultRuleOf(call.cfg, rules[j][1])
                      o == ProfileRuleOf(call.cfg, name, rules[j][1])
                  IN /\ rules[j][2].enabled =
                           (IF o.enabled = Undefined THEN d.enabled ELSE o.enabled)
                     /\ rules[j][2].thresholdSec =
                           (IF o.thresholdSec = Undefined THEN d.thresholdSec ELSE o.thresholdSec)

\* The profile gives nether only enabled: false, the defaults give it a cutoff:
\* the merged rule is disabled and keeps the cutoff.
C12_Witness ==
    /\ BuildReturned
    /\ DefaultRuleOf(call.cfg, K_nether) = Rule(Bool(TRUE), Num(2))
    /\ ProfileRuleOf(call.cfg, S_one, K_nether) = Rule(Bool(FALSE), Undefined)
    /\ \E i \in 1..Len(ret.value.STREAMER_MILESTONES) :
          /\ ret.value.STREAMER_MILESTONES[i][1] = S_one
          /\ \E j \in 1..Len(ret.value.STREAMER_MILESTONES[i][2]) :
                ret.value.STREAMER_MILESTONES[i][2][j] = <<K_nether, Rule(Bool(FALSE), Num(2))>>

RangeReturned == call.fn = "isTimeInQuietRange" /\ ret.done

\* The minute of the day of an instant given in seconds: the hour of the day
\* times 60 plus the minute of the hour; the seconds are dropped.
NowMinutes(nowSec) == ((nowSec % 86400) \div 3600) * 60 + ((nowSec % 3600) \div 60)

\* C13: for a well-formed span whose start differs from its end,
\* isTimeInQuietRange is true exactly when the minute of the day is in
\* [start, end) for start < end, and at or after start or before end for
\* start > end; the seconds of the time do not matter.
C13_StartInclusiveEndExclusive ==
    (RangeReturned /\ call.span.ok /\ call.span.start # call.span.end) =>
        LET start == call.span.start
            end == call.span.end
            now_minutes == NowMinutes(call.nowSec)
        IN ret.value <=>
              \/ start < end /\ start <= now_minutes /\ now_minutes < end
              \/ start > end /\ (now_minutes >= start \/ now_minutes < end)

\* A span over midnight (23:00-07:15) asked in the last second of the minute
\* before its end: inside.
C13_Witness ==
    /\ RangeReturned /\ call.span.ok
    /\ call.span.start = 23 * 60 /\ call.span.end = 7 * 60 + 15
    /\ call.nowSec = (7 * 60 + 14) * 60 + 59
    /\ ret.value = TRUE

\* C14: for a well-formed span whose start equals its end, isTimeInQuietRange
\* is true at every time of day.
C14_EqualEndsAlwaysQuiet ==
    (RangeReturned /\ call.span.ok /\ call.span.start = call.span.end) => ret.value = TRUE

\* 12:00-12:00 asked one minute before noon.
C14_Witness ==
    /\ RangeReturned /\ call.span.ok
    /\ call.span.start = 12 * 60 /\ call.span.end = 12 * 60
    /\ NowMinutes(call.nowSec) = 11 * 60 + 59
    /\ ret.value = TRUE

QuietReturned == call.fn = "inQuietHours" /\ ret.done

\* Whether a well-formed span contains a minute of the day.
SpanContains(sp, minute) ==
    \/ sp.start = sp.end
    \/ sp.start < sp.end /\ sp.start <= minute /\ minute < sp.end
    \/ sp.start > sp.end /\ (minute >= sp.start \/ minute < sp.end)

AnySpanContains(spans, minute) ==
    \E i \in 1..Len(spans) : spans[i].ok /\ SpanContains(spans[i], minute)

\* C15: with the override off, inQuietHours returns a boolean, true exactly when
\* some well-formed entry of the list contains the current time; malformed
\* entries add nothing and take nothing away, and an empty or absent list is
\* never quiet.
C15_AnyWellFormedSpan ==
    (QuietReturned /\ ~call.override) =>
        /\ ret.value \in BOOLEAN
        /\ ret.value <=> AnySpanContains(call.quiet.spans, NowMinutes(call.nowSec))
        /\ call.quiet.spans = <<>> => ret.value = FALSE

\* A list of a malformed entry and a well-formed span that contains the time,
\* which the malformed entry does not hide.
C15_Witness ==
    /\ QuietReturned /\ ~call.override
    /\ call.quiet.kind = "array" /\ Len(call.quiet.spans) = 2
    /\ ~call.quiet.spans[1].ok
    /\ call.quiet.spans[1].entry.text = SpanText(<<25, 0>>, <<26, 0>>, "plain")
    /\ call.quiet.spans[2].ok
    /\ ret.value = TRUE

NotifyReturned == call.fn = "sendNotify" /\ ret.done

\* Whether the time of a sendNotify call is inside a quiet span of its
\* configuration.
NotifyInQuietSpan == AnySpanContains(call.quiet.spans, NowMinutes(call.nowSec))

\* C16 as stated: sendNotify ends in one of three ways: dry-run without a
\* delivery when dry-run is on; quiet-suppressed without a delivery when dry-run
\* is off, the time is in a quiet span and the override is off; otherwise one
\* delivery and sent.
C16_ExactlyThreeOutcomes ==
    NotifyReturned =>
        IF call.dryRun THEN ret.value = [sends |-> 0, outcome |-> "dry-run"]
        ELSE IF NotifyInQuietSpan /\ ~call.override
        THEN ret.value = [sends |-> 0, outcome |-> "quiet"]
        ELSE ret.value = [sends |-> 1, outcome |-> "sent"]

\* C16, amended: the three outcomes are those of a call whose configuration can
\* be read and whose delivery resolves. With dry-run off, a configuration that
\* cannot be read makes sendNotify reject without a delivery, and a delivery
\* that rejects makes it reject after the one delivery call.
C16_ThreeOutcomesOrRejected ==
    NotifyReturned =>
        IF call.dryRun THEN ret.value = [sends |-> 0, outcome |-> "dry-run"]
        ELSE IF ~call.cfgLoads THEN ret.value = [sends |-> 0, outcome |-> "rejected"]
        ELSE IF NotifyInQuietSpan /\ ~call.override
        THEN ret.value = [sends |-> 0, outcome |-> "quiet"]
        ELSE ret.value = [sends |-> 1,
                          outcome |-> IF call.sendResolves THEN "sent" ELSE "rejected"]

\* Dry-run is off, the time is outside the quiet span, the one delivery rejects
\* and sendNotify rejects.
C16_Witness ==
    /\ NotifyReturned
    /\ ~call.dryRun /\ call.cfgLoads /\ ~call.override /\ ~call.sendResolves
    /\ Len(call.quiet.spans) = 1 /\ call.quiet.spans[1].ok /\ ~NotifyInQuietSpan
    /\ ret.value = [sends |-> 1, outcome |-> "rejected"]

\* C17: with the quiet-hours override on, inQuietHours returns false whatever
\* the list and the time, and sendNotify never ends quiet-suppressed.
C17_OverrideNeverQuiet ==
    /\ (QuietReturned /\ call.override) => ret.value = FALSE
    /\ (NotifyReturned /\ call.override) => ret.value.outcome # "quiet"

\* The override is on and the time is inside a span of the list: not quiet.
C17_Witness ==
    /\ QuietReturned /\ call.override
    /\ call.quiet.kind = "array"
    /\ AnySpanContains(call.quiet.spans, NowMinutes(call.nowSec))
    /\ ret.value = FALSE

MarkReturned == call.fn = "markIfNew" /\ ret.done

SharesKey(ks, ls) == \E i \in 1..Len(ks), j \in 1..Len(ls) : ks[i] = ls[j]
Unseen(ks) == \A i \in 1..Len(ks) : ks[i] \notin call.seen

\* C20: a first call of markIfNew with keys not seen before returns new (its
\* write of the file succeeding), and every later call with the same keys, or
\* with any keys that share a key with the first call's, returns already-seen,
\* whether or not a write succeeded.
C20_NewOnceThenSeen ==
    (MarkReturned /\ Unseen(call.keyLists[1])) =>
        /\ ret.value[1] = (IF 1 \in call.writeThrows THEN "throws" ELSE "new")
        /\ \A j \in 2..Len(call.keyLists) :
              SharesKey(call.keyLists[1], call.keyLists[j]) => ret.value[j] = "seen"

\* The first call records the new-format and the legacy key; the second call
\* asks with the legacy key alone and the third with the new-format key and
\* another key: both are told already-seen.
C20_Witness ==
    /\ MarkReturned /\ call.seen = {} /\ call.writeThrows = {}
    /\ call.keyLists = << <<Key_new, Key_legacy>>, <<Key_legacy>>, <<Key_other, Key_new>> >>
    /\ ret.value = <<"new", "seen", "seen">>

\* ------------------------------------------------------------ the run never seen live

\* The step is one of watcher w, which waits for its snapshot and has not seen
\* its run live so far.
NeverLiveStep(w) ==
    /\ watches[w].pc = "awaitWorld" /\ ~watches[w].wasLive
    /\ watches'[w] # watches[w]

\* The watcher ends and leaves everything else as it was.
StopsWithoutEvaluating(w) ==
    /\ watches'[w] = FreeWatch
    /\ seen' = seen /\ disk' = disk /\ notifyLog' = notifyLog

\* What the watcher does with some live snapshot of its run.
EvaluatesLiveSnapshot(w) ==
    \E world \in WatchWorlds, liveRun \in WatchLiveRuns :
        /\ world.isLive
        /\ Evaluate(w, [watches[w] EXCEPT !.world = world, !.wasLive = TRUE,
                                          !.liveRun = liveRun, !.idx = 1])

\* C18: a watcher that has not seen its run live and gets an answer either
\* stops with no notification attempted and no key recorded, or does what a
\* live snapshot makes it do; and a watcher that sleeps until its next tick or
\* awaits a delivery has seen its run live.
C18_NoEvaluationBeforeLive ==
    [][\A w \in WatchSlots :
          /\ NeverLiveStep(w) => (StopsWithoutEvaluating(w) \/ EvaluatesLiveSnapshot(w))
          /\ watches'[w].pc \in {"sleep", "awaitAlert"} => watches'[w].wasLive]_vars

\* The discovery loop has started a watcher for run 1, and the watcher has
\* ended again with nothing recorded and nothing notified: its first snapshot
\* was not live (or did not come).
C18_Witness ==
    /\ \E l \in LoopSlots : loops[l].lastRunId = 1 /\ loops[l].pc = "sleep"
    /\ \A w \in WatchSlots : watches[w] = FreeWatch
    /\ seen = {} /\ disk = {} /\ \A t \in Triples : notifyLog[t] = <<>>
    /\ InArray(cfg.streamers, S_one)

\* ------------------------------------------------------------ faults of the configuration file

\* config.json becomes unreadable: it is being rewritten, it is saved with a
\* syntax error, or it is removed.
ConfigBreaks ==
    /\ proc.running /\ proc.cfgReadable
    /\ proc' = [proc EXCEPT !.cfgReadable = FALSE]
    /\ UNCHANGED <<cfg, now, argv, seen, disk, loops, watches, notifyLog, pureVars>>

\* config.json is whole again.
ConfigRepaired ==
    /\ proc.running /\ ~proc.cfgReadable
    /\ proc' = [proc EXCEPT !.cfgReadable = TRUE]
    /\ UNCHANGED <<cfg, now, argv, seen, disk, loops, watches, notifyLog, pureVars>>

\* The process started without flags on the base configuration, main having
\* read it.
InitFaults ==
    /\ Started(Flags(FALSE, FALSE, FALSE, FALSE), BaseConfig)
    /\ call = NoCall
    /\ ret = NoRet

NextFaults ==
    \/ SyncStreamers
    \/ \E l \in LoopSlots : LoopGotRecentRunId(l)
    \/ \E l \in LoopSlots : LoopGotWorld(l)
    \/ \E l \in LoopSlots : LoopWake(l)
    \/ \E w \in WatchSlots : WatchWake(w)
    \/ \E w \in WatchSlots : WatchGotWorld(w)
    \/ \E w \in WatchSlots : WatchAlertDone(w)
    \/ ConfigBreaks
    \/ ConfigRepaired

SpecFaults == InitFaults /\ [][NextFaults]_vars

\* C19: no exception escapes a discovery loop, a watch loop or the timer that
\* syncs the loops, and the process keeps running.
C19_NoExceptionEscapes == proc.uncaught = {} /\ proc.running

\* ------------------------------------------------------------ the dedupe store

StoreReturned == call.fn = "markIfNewStore" /\ ret.done

KeysGiven == {call.keys[i] : i \in 1..Len(call.keys)}

\* C21: markIfNew finds the keys new exactly when none of them is recorded, and
\* then records all of them (returning new and writing the set to the file,
\* unless the write throws); when one of them is recorded it returns
\* already-seen and leaves the set and the file as they were.
C21_NewIffNoneRecorded ==
    StoreReturned =>
        IF KeysGiven \cap call.store.seen = {}
        THEN /\ ret.value.seen = call.store.seen \cup KeysGiven
             /\ IF call.writeThrows
                THEN ret.value.result = "throws" /\ ret.value.disk = call.store.disk
                ELSE ret.value.result = "new" /\ ret.value.disk = ret.value.seen
        ELSE /\ ret.value.result = "seen"
             /\ ret.value.seen = call.store.seen
             /\ ret.value.disk = call.store.disk

\* The legacy key is recorded, the new-format key is not: already-seen, and the
\* new-format key is not added.
C21_Witness ==
    /\ StoreReturned
    /\ call.keys = <<Key_new, Key_legacy>>
    /\ call.store.seen = {Key_legacy, Key_other}
    /\ ret.value.result = "seen"
    /\ Key_new \notin ret.value.seen /\ Key_new \notin ret.value.disk

\* C22 as stated: a list with a key never seen before and keys already seen is
\* new, and all its keys are recorded.
C22_UnseenAmongSeenIsNew ==
    (/\ StoreReturned /\ ~call.writeThrows
     /\ KeysGiven \cap call.store.seen # {}
     /\ KeysGiven \ call.store.seen # {})
        => ret.value.result = "new" /\ KeysGiven \subseteq ret.value.seen

\* C22, amended: a list with a key never seen before and a key already seen is
\* already-seen, and the key never seen before is not recorded, in the set or
\* in the file.
C22_UnseenAmongSeenIsSeen ==
    (/\ StoreReturned
     /\ KeysGiven \cap call.store.seen # {}
     /\ KeysGiven \ call.store.seen # {})
        => /\ ret.value.result = "seen"
           /\ (KeysGiven \ call.store.seen) \cap (ret.value.seen \cup ret.value.disk) = {}

\* The new-format key was never seen, the legacy key is recorded and written.
C22_Witness ==
    /\ StoreReturned /\ ~call.writeThrows
    /\ call.keys = <<Key_new, Key_legacy>>
    /\ call.store = [seen |-> {Key_legacy}, disk |-> {Key_legacy}]
    /\ ret.value = [result |-> "seen", seen |-> {Key_legacy}, disk |-> {Key_legacy}]

\* ------------------------------------------------------------ restarts

\* Variant: a process starts with an empty set whatever the file holds.
LoadSeen_Empty(file) == {}

\* The set a starting process loads: the keys of sent_keys.json (none when
\* the file is not there).
LoadSeen(file) == file

\* The process is stopped (or has ended) and is started again with the same
\* flags: its tasks are gone, the in-memory set is loaded from the file, and
\* main reads the configuration. What was notified stays notified.
Restart ==
    /\ proc.cfgReadable
    /\ seen' = LoadSeen(disk)
    /\ loops' = [l \in LoopSlots |-> FreeLoop]
    /\ watches' = [w \in WatchSlots |-> FreeWatch]
    /\ proc' = [cfgReadable |-> TRUE, uncaught |-> {}, running |-> TRUE]
    /\ \/ loops # loops' \/ watches # watches' \/ seen # seen' \/ proc # proc'
    /\ UNCHANGED <<cfg, now, argv, disk, notifyLog, pureVars>>

InitRestart ==
    /\ \E file \in StartConfigs : Started(Flags(FALSE, FALSE, FALSE, FALSE), file)
    /\ call = NoCall
    /\ ret = NoRet

NextRestart ==
    \/ SyncStreamers
    \/ \E l \in LoopSlots : LoopGotRecentRunId(l)
    \/ \E l \in LoopSlots : LoopGotWorld(l)
    \/ \E l \in LoopSlots : LoopWake(l)
    \/ \E w \in WatchSlots : WatchWake(w)
    \/ \E w \in WatchSlots : WatchGotWorld(w)
    \/ \E w \in WatchSlots : WatchAlertDone(w)
    \/ Restart

SpecRestart == InitRestart /\ [][NextRestart]_vars

C24_OnceEndsAfterOneIteration ==
    argv.once => \A l \in LoopSlots : loops[l].pc # "sleep"

\* ------------------------------------------------------------ status endpoint

\* The milestones GET /status reports on, in canonical order.
CANONICAL_MILESTONES ==
    <<K_nether, K_bastion, K_fortress, K_first_portal, K_stronghold, K_end, K_finish>>

\* LIVE_EVENT_BY_MILESTONE of the status handler: no entry for second_portal.
StatusLiveEventId(milestone) ==
    IF milestone = K_second_portal THEN "" ELSE LiveEventId(milestone)

getSplitMsFromWorldData(world, base) ==
    LET data == IF world.present THEN world.data ELSE NoData
    IN FirstValid(<< Field(data, base),
                     Field(data, base \o IgtSuffix),
                     Field(data, base \o RtaSuffix) >>)

\* getLiveSplitMs of the status handler: the first event with the milestone's
\* id, its igt before its rta.
getLiveSplitMsFromEvents(liveRun, milestone) ==
    LET eventId == StatusLiveEventId(milestone)
        list == IF liveRun.present THEN liveRun.eventList ELSE <<>>
    IN IF eventId = "" THEN Null
       ELSE IF ~\E i \in 1..Len(list) : list[i].eventId = eventId THEN Null
       ELSE LET k == CHOOSE i \in 1..Len(list) :
                         /\ list[i].eventId = eventId
                         /\ \A j \in 1..(i-1) : list[j].eventId # eventId
            IN FirstValid(<<list[k].igt, list[k].rta>>)

\* Variant: a milestone replaces the last one only with a strictly greater time.
ReplacesLast_StrictlyGreater(ms, lastMilestoneMs) ==
    ~IsNullish(ms) /\ (IsNullish(lastMilestoneMs) \/ ms.n > lastMilestoneMs.n)

\* ms != null && (lastMilestoneMs == null || ms >= lastMilestoneMs)
ReplacesLast(ms, lastMilestoneMs) ==
    ~IsNullish(ms) /\ (IsNullish(lastMilestoneMs) \/ ms.n >= lastMilestoneMs.n)

\* The empty sequence and the empty string stand for a null milestone and a
\* null source.
NoLastMilestone ==
    [lastMilestone |-> <<>>, lastMilestoneMs |-> Null, lastMilestoneSource |-> ""]

\* The loop of getLastMilestone from the i-th canonical milestone on.
RECURSIVE ScanMilestones(_, _, _, _)
ScanMilestones(world, liveRun, i, last) ==
    IF i > Len(CANONICAL_MILESTONES) THEN last
    ELSE LET m == CANONICAL_MILESTONES[i]
             worldMs == getSplitMsFromWorldData(world, m)
             liveMs == getLiveSplitMsFromEvents(liveRun, m)
             ms == IF ~IsNullish(worldMs) THEN worldMs ELSE liveMs
         IN IF ReplacesLast(ms, last.lastMilestoneMs)
            THEN ScanMilestones(world, liveRun, i + 1,
                     [lastMilestone |-> m, lastMilestoneMs |-> ms,
                      lastMilestoneSource |-> IF ~IsNullish(worldMs) THEN "world" ELSE "live"])
            ELSE ScanMilestones(world, liveRun, i + 1, last)

getLastMilestone(world, liveRun) == ScanMilestones(world, liveRun, 1, NoLastMilestone)

\* The snapshots and live runs a status request meets: nether, bastion and
\* finish carry values, among them 0, equal times, a negative time and null.
F_finish == K_finish
StatusFields == {F_nether, F_netherIgt, F_bastion, F_finish}
StatusData(nether, netherIgt, bastion, finish) ==
    [f \in StatusFields |->
        IF f = F_nether THEN nether
        ELSE IF f = F_netherIgt THEN netherIgt
        ELSE IF f = F_bastion THEN bastion
        ELSE finish]
StatusWorlds ==
    {NoWorld} \cup
    {[present |-> TRUE, isLive |-> TRUE, data |-> StatusData(a, b, c, d)] :
        a \in {Undefined, Null, Num(0), Num(1000), Num(2000)},
        b \in {Undefined, Num(1500)},
        c \in {Undefined, Num(0 - 1), Num(0), Num(1000), Num(2000)},
        d \in {Undefined, Num(1000), Num(2000)}}
StatusEventLists ==
    {<<>>} \cup
    {<<Event("rsg.enter_nether", v, Undefined)>> : v \in {Num(1000), Num(2000)}} \cup
    {<<Event("rsg.credits", Undefined, v)>> : v \in {Num(1000), Num(3000)}} \cup
    {<<Event("rsg.enter_nether", v, Undefined), Event("rsg.credits", w, Num(3000))>> :
        v \in {Num(1000), Null}, w \in {Num(1000), NaN}}
StatusLiveRuns == {NoLiveRun} \cup {LiveRun(list) : list \in StatusEventLists}
StatusCalls ==
    {[fn |-> "getLastMilestone", world |-> w, liveRun |-> r] :
        w \in StatusWorlds, r \in StatusLiveRuns}

CallGetLastMilestone ==
    /\ call.fn = "getLastMilestone" /\ ~ret.done
    /\ ret' = ReturnedValue(getLastMilestone(call.world, call.liveRun))
    /\ UNCHANGED <<call, watchVars>>

\* ------------------------------------------------------------ PUT /config

MAX_NAMES == 15

\* A request body as the handler sees it: what it is, and what its streamers,
\* defaultMilestones and quietHours fields are. A stored configuration is the
\* body that was written; NoFile stands for a file or row that does not exist.
Body(kind, streamers, defaultMilestones, quietHours) ==
    [kind |-> kind, streamers |-> streamers,
     defaultMilestones |-> defaultMilestones, quietHours |-> quietHours]
NoField == [t |-> "undefined", length |-> 0]
ArrayOf(n) == [t |-> "array", length |-> n]
NoFile == Body("none", NoField, "undefined", "undefined")

\* getToken(req): the token parameter trimmed, then without the characters
\* outside [a-zA-Z0-9_-]; the empty sequence stands for null.
SafeTokenChars == {"a", "b", "7", "_", "-"}
getToken(raw) ==
    LET trimmed == Trim(raw)
    IN IF trimmed = <<>> THEN <<>>
       ELSE SelectSeq(trimmed, LAMBDA c : c \in SafeTokenChars)

\* Variant: a write for a token also replaces the base configuration.
writeConfigForToken_AlsoBase(store, token, next, env) ==
    IF env.fileWriteThrows THEN [threw |-> TRUE, store |-> store]
    ELSE IF token = <<>>
    THEN [threw |-> FALSE, store |-> [store EXCEPT !.base = next]]
    ELSE [threw |-> FALSE,
          store |-> [store EXCEPT !.base = next, !.files[token] = next]]

\* writeConfigForToken(token, next): the base file without a token; with one,
\* the token's Supabase row if that store is enabled and the write succeeds,
\* else the token's file. A failing file write throws.
writeConfigForToken(store, token, next, env) ==
    IF token = <<>>
    THEN IF env.fileWriteThrows THEN [threw |-> TRUE, store |-> store]
         ELSE [threw |-> FALSE, store |-> [store EXCEPT !.base = next]]
    ELSE IF env.supabase = "ok"
    THEN [threw |-> FALSE, store |-> [store EXCEPT !.rows[token] = next]]
    ELSE IF env.fileWriteThrows THEN [threw |-> TRUE, store |-> store]
    ELSE [threw |-> FALSE, store |-> [store EXCEPT !.files[token] = next]]

\* The handler of PUT /config: the status it answers with and the store after.
putConfig(store, rawToken, next, env) ==
    LET token == getToken(rawToken)
        Rejected == [status |-> 400, store |-> store]
    IN IF next.kind \notin {"object", "array"} THEN Rejected
       ELSE IF next.streamers.t # "array" THEN Rejected
       ELSE IF next.streamers.length > MAX_NAMES THEN Rejected
       ELSE IF next.defaultMilestones \notin {"object", "array"} THEN Rejected
       ELSE IF next.quietHours \notin {"undefined", "null", "string", "strings"} THEN Rejected
       ELSE LET written == writeConfigForToken(store, token, next, env)
            IN IF written.threw THEN [status |-> 500, store |-> store]
               ELSE [status |-> 200, store |-> written.store]

\* The requests: bodies that are no object, an array, and objects with every
\* combination of field shapes; token parameters with and without safe
\* characters; stores with and without a file and a row for token a.
T_a == <<"a">>
T_b == <<"b">>
StoredTokens == {T_a, T_b}
RawTokens == {<<>>, <<" ">>, T_a, T_b, <<"!">>, <<" ", "a", "!">>}
StreamersFields ==
    {NoField, [t |-> "string", length |-> 3],
     ArrayOf(0), ArrayOf(MAX_NAMES), ArrayOf(MAX_NAMES + 1)}
DefaultMilestonesFields == {"undefined", "null", "object", "array", "string"}
QuietHoursFields == {"undefined", "null", "string", "strings", "mixed", "number"}
PutBodies ==
    {Body("undefined", NoField, "undefined", "undefined"),
     Body("array", NoField, "undefined", "undefined")} \cup
    {Body("object", sf, df, qf) :
        sf \in StreamersFields, df \in DefaultMilestonesFields, qf \in QuietHoursFields}
StoredConfig == Body("object", ArrayOf(0), "object", "undefined")
ConfigStores ==
    {[base |-> StoredConfig,
      files |-> [t \in StoredTokens |-> IF t = T_a THEN f ELSE NoFile],
      rows |-> [t \in StoredTokens |-> IF t = T_a THEN r ELSE NoFile]] :
        f \in {NoFile, StoredConfig}, r \in {NoFile, StoredConfig}}
StoreEnvs ==
    {[supabase |-> sb, fileWriteThrows |-> w] :
        sb \in {"off", "ok", "fails"}, w \in BOOLEAN}
PutCalls ==
    {[fn |-> "putConfig", store |-> st, rawToken |-> tk, next |-> b, env |-> e] :
        st \in ConfigStores, tk \in RawTokens, b \in PutBodies, e \in StoreEnvs}

CallPutConfig ==
    /\ call.fn = "putConfig" /\ ~ret.done
    /\ ret' = ReturnedValue(putConfig(call.store, call.rawToken, call.next, call.env))
    /\ UNCHANGED <<call, watchVars>>

InitServer ==
    /\ \/ call \in StatusCalls
       \/ call \in PutCalls
    /\ ret = NotReturned
    /\ Started(Flags(FALSE, FALSE, FALSE, FALSE), BaseConfig)

NextServer ==
    \/ CallGetLastMilestone
    \/ CallPutConfig

SpecServer == InitServer /\ [][NextServer]_vars

\* ------------------------------------------------------------ properties of the status endpoint

LastMilestoneReturned == call.fn = "getLastMilestone" /\ ret.done

\* The first candidate of a list that is a finite number not below zero, written
\* without the scan; null if there is none.
ValidAt(list, i) == list[i].t = "num" /\ list[i].n >= 0
FirstUsable(list) ==
    IF \E i \in 1..Len(list) : ValidAt(list, i)
    THEN list[CHOOSE i \in 1..Len(list) : ValidAt(list, i) /\ \A j \in 1..(i-1) : ~ValidAt(list, j)]
    ELSE Null

\* What the request's snapshot and live run hold for the i-th tracked milestone.
SnapshotValue(i) ==
    LET base == CANONICAL_MILESTONES[i]
        data == IF call.world.present THEN call.world.data ELSE NoData
    IN FirstUsable(<<Field(data, base), Field(data, base \o IgtSuffix), Field(data, base \o RtaSuffix)>>)
LiveFeedValue(i) ==
    LET id == LiveEventId(CANONICAL_MILESTONES[i])
        hits == IF call.liveRun.present
                THEN SelectSeq(call.liveRun.eventList, LAMBDA e : e.eventId = id)
                ELSE <<>>
    IN IF hits = <<>> THEN Null ELSE FirstUsable(<<hits[1].igt, hits[1].rta>>)
ResolvedValue(i) == IF SnapshotValue(i).t = "num" THEN SnapshotValue(i) ELSE LiveFeedValue(i)
Tracked == 1..Len(CANONICAL_MILESTONES)
ResolvedMilestones == {i \in Tracked : ResolvedValue(i).t = "num"}

PutReturned == call.fn = "putConfig" /\ ret.done

\* The defects of a body, read off the request: it is no object, its streamers
\* are no array or more than fifteen, its defaultMilestones are missing or no
\* object, its quietHours are given and neither a string nor an array of strings.
FailsValidation(b) ==
    \/ b.kind = "undefined"
    \/ b.streamers.t # "array"
    \/ b.streamers.t = "array" /\ b.streamers.length >= 16
    \/ b.defaultMilestones \in {"undefined", "null", "string"}
    \/ b.quietHours \in {"mixed", "number"}

\* The token the request carries, as the handler reads it.
RequestToken == getToken(call.rawToken)

\* C26: a PUT /config whose body fails validation is answered with 400 and
\* leaves the base and every per-token configuration as they were; a valid PUT
\* with a token is not answered with 400, leaves the base configuration as it
\* was and changes no configuration but that token's, which is the body when
\* the answer is 200.
C26_InvalidRejectedTokenWriteIsolated ==
    PutReturned =>
        /\ FailsValidation(call.next) =>
              ret.value.status = 400 /\ ret.value.store = call.store
        /\ ~FailsValidation(call.next) /\ RequestToken # <<>> =>
              /\ ret.value.status # 400
              /\ ret.value.store.base = call.store.base
              /\ \A t \in StoredTokens \ {RequestToken} :
                    /\ ret.value.store.files[t] = call.store.files[t]
                    /\ ret.value.store.rows[t] = call.store.rows[t]
              /\ ret.value.status = 200 =>
                    \/ ret.value.store.files[RequestToken] = call.next
                    \/ ret.value.store.rows[RequestToken] = call.next

\* A valid body with fifteen streamers put with token b into a store that has a
\* configuration for token a: written to b's file, nothing else touched.
C26_Witness ==
    /\ PutReturned
    /\ call.rawToken = T_b
    /\ call.next = Body("object", ArrayOf(MAX_NAMES), "object", "strings")
    /\ call.store.files[T_a] = StoredConfig
    /\ ret.value.status = 200
    /\ ret.value.store.files[T_b] = call.next
    /\ ret.value.store.files[T_a] = StoredConfig
    /\ ret.value.store.base = StoredConfig

\* ------------------------------------------------------------ discovery of later runs

\* getRecentRunId answers in loopStreamer; the streamer starts a second run
\* after the first.
LoopGotLaterRunId(l) == GotRecentRunId(l, {-1, 0} \cup LaterRunIds)

InitDiscovery ==
    /\ Started(Flags(FALSE, FALSE, FALSE, FALSE), BaseConfig)
    /\ call = NoCall
    /\ ret = NoRet

NextDiscovery ==
    \/ SyncStreamers
    \/ \E l \in LoopSlots : LoopGotLaterRunId(l)
    \/ \E l \in LoopSlots : LoopGotWorld(l)
    \/ \E l \in LoopSlots : LoopWake(l)
    \/ \E w \in WatchSlots : WatchWake(w)
    \/ \E w \in WatchSlots : WatchGotWorld(w)
    \/ \E w \in WatchSlots : WatchAlertDone(w)

SpecDiscovery == InitDiscovery /\ [][NextDiscovery]_vars

\* ------------------------------------------------------------ properties of the discovery loop

\* The step starts a watchRun for the run loop l has discovered: a free slot
\* gets a watcher of that run, or the watcher's first read of the
\* configuration throws.
StartsWatchFor(l) ==
    \/ \E w \in WatchSlots :
          /\ watches[w].pc = "free" /\ watches'[w].pc # "free"
          /\ watches'[w].runId = loops[l].id
          /\ watches'[w].streamer = loops[l].streamer
    \/ "watchRun" \in proc'.uncaught \ proc.uncaught

\* The step is one of loop l, which waits for the snapshot of a discovered run.
DiscoveryStep(l) == loops[l].pc = "awaitWorld" /\ loops'[l] # loops[l]

\* C27: a discovery loop asks for the snapshot of a run id only if the id
\* differs from the last one it handled; a watcher is started only by a loop
\* that waits for that snapshot, only for that run id, and only in the step the
\* loop takes on a live snapshot, never in the step it takes on a snapshot
\* that is not live or on a failed fetch; and an outcome is logged for a run
\* only while a watcher of that run is at work.
C27_WatchOnlyNewAndLive ==
    [][/\ \A l \in LoopSlots :
            /\ loops'[l].pc = "awaitWorld" /\ loops[l].pc # "awaitWorld" =>
                  /\ loops[l].pc = "awaitId"
                  /\ loops'[l].id # 0 /\ loops'[l].id # loops[l].lastRunId
            /\ DiscoveryStep(l) /\ StartsWatchFor(l) =>
                  /\ LoopGotWorldAnswer(l, "live")
                  /\ ~LoopGotWorldAnswer(l, "notLive")
                  /\ ~LoopGotWorldAnswer(l, "throw")
       /\ \A w \in WatchSlots : watches[w].pc = "free" /\ watches'[w].pc # "free" =>
            \E l \in LoopSlots : DiscoveryStep(l) /\ watches'[w].runId = loops[l].id
       /\ \A t \in Triples : notifyLog'[t] # notifyLog[t] =>
            \E w \in WatchSlots : /\ watches[w].runId = t[2]
                                  /\ watches[w].pc \in {"awaitWorld", "awaitAlert"}]_vars

\* Run 1 was skipped at discovery or its watcher has ended, nothing was logged
\* for it; run 2 was found live and its watcher waits for its first snapshot.
C27_Witness ==
    /\ \E l \in LoopSlots : loops[l].lastRunId = 2 /\ loops[l].pc = "sleep"
    /\ \E w \in WatchSlots : watches[w].pc = "awaitWorld" /\ watches[w].runId = 2
    /\ \A w \in WatchSlots : watches[w].runId # 1
    /\ \A t \in Triples : notifyLog[t] = <<>>

\* The step of loop l takes the discovered run off its hands without a watcher
\* for it: the snapshot was not live, or the fetch failed.
SkipsDiscoveredRun(l) == DiscoveryStep(l) /\ ~StartsWatchFor(l)

\* C28: a run id skipped at discovery is still different from the last run id
\* of the loop, so that the same id is taken up when a later poll returns it.
C28_SkippedRunStaysNew ==
    [][\A l \in LoopSlots :
          SkipsDiscoveredRun(l) => NewRunId(loops[l].id, loops'[l].lastRunId)]_vars

\* ------------------------------------------------------------ a watcher without a snapshot

\* The process is started within the quiet hours, so that no delivery is
\* awaited.
InitQuietDiscovery ==
    /\ Started(Flags(FALSE, FALSE, FALSE, FALSE), NightConfig)
    /\ call = NoCall
    /\ ret = NoRet

NextQuietDiscovery ==
    \/ SyncStreamers
    \/ \E l \in LoopSlots : LoopGotLaterRunId(l)
    \/ \E l \in LoopSlots : LoopGotWorld(l)
    \/ \E l \in LoopSlots : LoopWake(l)
    \/ \E w \in WatchSlots : WatchWake(w)
    \/ \E w \in WatchSlots : WatchGotWorld(w)

\* A step of loop l: its fetch answers or its timer fires.
LoopStep(l) == LoopGotLaterRunId(l) \/ LoopGotWorld(l) \/ LoopWake(l)

\* The timers fire and the fetches answer: a discovery loop that can take a
\* step takes one in the end.
SpecQuietDiscoveryFair ==
    /\ InitQuietDiscovery
    /\ [][NextQuietDiscovery]_vars
    /\ \A l \in LoopSlots : WF_vars(LoopStep(l))

\* getWorld(runId) resolves with no payload.
NoSnapshot == [ok |-> TRUE, world |-> NoWorld]

\* The step is the one watcher w takes when its fetch brings no snapshot.
NoSnapshotStep(w) ==
    watches[w].pc = "awaitWorld" /\ WatchGotWorldAnswer(w, NoSnapshot)

\* Loop l asks for the streamer's most recent run.
Polls(l) == loops[l].pc = "awaitId"

\* C29: the step a watcher takes when its fetch brings no snapshot ends that
\* watcher with nothing evaluated, logged or recorded and leaves the discovery
\* loops and the other watchers as they are; and a discovery loop of a
\* configured streamer polls again and again, whatever its watchers do.
C29_NoSnapshotEndsWatchOnly ==
    /\ [][\A w \in WatchSlots : NoSnapshotStep(w) =>
            /\ StopsWithoutEvaluating(w)
            /\ loops' = loops
            /\ \A v \in WatchSlots \ {w} : watches'[v] = watches[v]]_vars
    /\ \A l \in LoopSlots : [](loops[l].active => <>Polls(l))

\* The watcher of run 1 has handled nether and is gone, bastion of run 1 was
\* never reached; the loop has since found run 2 live, whose watcher has
\* handled nether and sleeps until its next tick.
C29_Witness ==
    /\ \E l \in LoopSlots : loops[l].lastRunId = 2
    /\ \A w \in WatchSlots : watches[w].runId # 1
    /\ \E w \in WatchSlots : watches[w].runId = 2 /\ watches[w].pc = "sleep"
    /\ notifyLog[<<S_one, 1, K_nether>>] = <<"quiet">>
    /\ notifyLog[<<S_one, 1, K_bastion>>] = <<>>
    /\ notifyLog[<<S_one, 2, K_nether>>] = <<"quiet">>

\* ------------------------------------------------------------ the grace period

\* The minutes followed past the start: more than the grace period.
GraceMinutes == 3

GraceTick == TickUpTo(StartMinute + GraceMinutes)

InitGrace ==
    /\ Started(Flags(FALSE, FALSE, FALSE, FALSE), BaseConfig)
    /\ call = NoCall
    /\ ret = NoRet

NextGrace ==
    \/ SyncStreamers
    \/ \E l \in LoopSlots : LoopGotRecentRunId(l)
    \/ \E l \in LoopSlots : LoopGotWorld(l)
    \/ \E l \in LoopSlots : LoopWake(l)
    \/ \E w \in WatchSlots : WatchWake(w)
    \/ \E w \in WatchSlots : WatchGotWorld(w)
    \/ \E w \in WatchSlots : WatchAlertDone(w)
    \/ GraceTick

SpecGrace == InitGrace /\ [][NextGrace]_vars

\* The step is one watcher w takes in a tick on the given snapshot: the
\* snapshot arrives, or a delivery awaited in that tick answers.
TickStepOn(w, world) ==
    \/ /\ watches[w].pc = "awaitWorld"
       /\ WatchGotWorldAnswer(w, [ok |-> TRUE, world |-> world])
    \/ /\ watches[w].pc = "awaitAlert"
       /\ watches[w].world = world
       /\ watches'[w] # watches[w]

\* Some enabled milestone of the watcher's rule set has no split in the
\* snapshot (a snapshot that is not live is resolved without the live feed).
LacksEnabledSplit(w, world) ==
    LET wr == [watches[w] EXCEPT !.world = world, !.liveRun = NoLiveRun]
    IN \E i \in 1..Len(wr.rules) : Decisions(wr)[i].action = "missing"

\* Date.now() of the model.
NowMs == now * MS_PER_MINUTE

\* C30: a tick on a snapshot that is not live ends the watcher unless some
\* enabled milestone lacks a split and the grace deadline is still ahead; the
\* deadline is set two minutes after the first such tick and then kept. A
\* tick on a live snapshot that leaves the watcher asleep leaves it without a
\* deadline, and it ends the watcher only through a failure (the key file
\* cannot be written, or the delivery is rejected).
C30_GraceThenExit ==
    [][\A w \in WatchSlots : \A world \in WatchWorlds :
          TickStepOn(w, world) =>
             IF world.isLive
             THEN /\ watches'[w].pc = "sleep" => watches'[w].postRunUntil = -1
                  /\ watches'[w] = FreeWatch =>
                        \/ seen' # seen /\ disk' = disk
                        \/ watches[w].pc = "awaitAlert" /\ seen' = seen
                                                        /\ notifyLog' = notifyLog
             ELSE watches'[w].pc = "sleep" =>
                     /\ LacksEnabledSplit(w, world)
                     /\ NowMs' < watches'[w].postRunUntil
                     /\ watches'[w].postRunUntil =
                           IF watches[w].postRunUntil = -1
                           THEN NowMs' + 2 * MS_PER_MINUTE
                           ELSE watches[w].postRunUntil]_vars

\* A watcher whose grace deadline has come waits for the snapshot of its next
\* tick.
C30_Witness ==
    \E w \in WatchSlots :
        /\ watches[w].pc = "awaitWorld"
        /\ watches[w].postRunUntil # -1
        /\ NowMs >= watches[w].postRunUntil

\* ------------------------------------------------------------ removal of a streamer

\* Watcher w sleeps and its streamer is not in the configured list.
SleepsRemoved(w) ==
    watches[w].pc = "sleep" /\ ~InArray(cfg.streamers, watches[w].streamer)

\* Loop l runs with its active flag cleared.
RunsCleared(l) == loops[l].pc \notin {"free", "done"} /\ ~loops[l].active

\* C31: the next tick of a watcher whose streamer has been removed ends the
\* watcher with nothing fetched, recorded or logged; a discovery loop whose
\* active flag is cleared starts no further fetch (it may still sleep once
\* before it ends).
C31_RemovedStreamerStopsAtOnce ==
    [][/\ \A w \in WatchSlots : SleepsRemoved(w) /\ watches'[w] # watches[w] =>
             /\ watches'[w] = FreeWatch
             /\ seen' = seen /\ disk' = disk /\ notifyLog' = notifyLog
       /\ \A l \in LoopSlots : RunsCleared(l) /\ loops'[l] # loops[l] =>
             loops'[l].pc \notin {"awaitId", "awaitWorld"}]_vars

\* ------------------------------------------------------------ failures within a tick

\* getWorld(runId) rejects.
FetchFailed == [ok |-> FALSE, world |-> NoWorld]

\* The step is the one watcher w takes when its fetch of the snapshot throws.
FailedFetchStep(w) ==
    watches[w].pc = "awaitWorld" /\ WatchGotWorldAnswer(w, FetchFailed)

\* The watcher of the same run sleeps until its next tick.
SleepsOn(w) ==
    /\ watches'[w].pc = "sleep"
    /\ watches'[w].runId = watches[w].runId
    /\ watches'[w].streamer = watches[w].streamer

\* C32: a fetch that throws in a watch tick abandons that tick only: the
\* watcher of the run stays and sleeps until its next tick.
C32_FetchErrorKeepsWatching ==
    [][\A w \in WatchSlots : FailedFetchStep(w) => SleepsOn(w)]_vars

\* The step is one watcher w takes in a tick on a live snapshot after the
\* delivery it awaited has answered: the delivery resolved or was rejected, and
\* the milestone loop has gone on, where recording a key can fail.
AlertStepOfLiveTick(w) ==
    /\ watches[w].pc = "awaitAlert"
    /\ watches[w].world.isLive
    /\ watches'[w] # watches[w]

\* C33: a delivery or a recording that fails for one milestone does not abort
\* the tick: in a tick on a live snapshot the watcher goes on with the
\* remaining milestones and then sleeps until its next tick, or awaits the
\* delivery for a later milestone.
C33_AlertFailureKeepsTick ==
    [][\A w \in WatchSlots : AlertStepOfLiveTick(w) =>
          /\ watches'[w].pc \in {"sleep", "awaitAlert"}
          /\ watches'[w].runId = watches[w].runId]_vars

\* ------------------------------------------------------------ a failed write of the key file

\* The key of the triple was taken into the Set in this step, and the file
\* does not hold it: the write in markIfNew failed.
RecordingFailed(t) ==
    /\ DedupeKey(t[3], t[1], t[2]) \in seen' \ seen
    /\ DedupeKey(t[3], t[1], t[2]) \notin disk'

\* C34: when the write of the dedupe record fails in markIfNew, the attempt
\* calls no delivery for that (streamer, run, milestone): no outcome of
\* sendNotify is logged for it in that step.
C34_FailedRecordingNoDelivery ==
    [][\A t \in Triples : RecordingFailed(t) => notifyLog'[t] = notifyLog[t]]_vars

\* The key of nether is in the Set and not in the file, and no delivery was
\* ever attempted for nether.
C34_Witness ==
    /\ DedupeKey(K_nether, S_one, 1) \in seen \ disk
    /\ notifyLog[<<S_one, 1, K_nether>>] = <<>>

\* ------------------------------------------------------------ one watcher per run

\* Watcher w is at work (it awaits a fetch, a delivery or its timer).
Watching(w) == watches[w].pc # "free"

\* C35: at any time at most one watcher exists for a (streamer, run id).
C35_OneWatchPerRun ==
    \A v, w \in WatchSlots :
        Watching(v) /\ Watching(w) /\ v # w =>
            <<watches[v].streamer, watches[v].runId>> # <<watches[w].streamer, watches[w].runId>>

\* Watcher w is in a tick on a live snapshot of its run (it awaits a delivery
\* of that tick).
EvaluatesLive(w) == watches[w].pc = "awaitAlert" /\ watches[w].world.isLive

\* C36: a streamer has at most one run being watched as live: while a watcher
\* of one run is in a tick on a live snapshot, no watcher of another run of
\* that streamer is.
C36_OneLiveRunPerStreamer ==
    \A v, w \in WatchSlots :
        /\ EvaluatesLive(v) /\ EvaluatesLive(w)
        /\ watches[v].streamer = watches[w].streamer
        => watches[v].runId = watches[w].runId

\* ------------------------------------------------------------ edited rules

\* The rule of nether in the defaults is edited while runs are watched: it is
\* disabled and enabled again, and its cutoff is lowered from 2 s to 1 s (the
\* split of 1.5 s is then no longer under it) and raised again; the clock is
\* switched to real time (the split is then 2.5 s) and back.
NetherDisabledConfig ==
    [BaseConfig EXCEPT !.defaultMilestones = << <<K_nether, Rule(Bool(FALSE), Num(2))>> >>]
NetherLowCutoffConfig ==
    [BaseConfig EXCEPT !.defaultMilestones = << <<K_nether, Rule(Bool(TRUE), Num(1))>> >>]
RealTimeConfig == [BaseConfig EXCEPT !.clock = <<"r","t","a">>]
RuleEdits ==
    {<<BaseConfig, NetherDisabledConfig>>, <<NetherDisabledConfig, BaseConfig>>,
     <<BaseConfig, NetherLowCutoffConfig>>, <<NetherLowCutoffConfig, BaseConfig>>,
     <<BaseConfig, RealTimeConfig>>, <<RealTimeConfig, BaseConfig>>}

EditRules == EditConfig(RuleEdits)

\* The snapshots of this part: those of the watcher model, and snapshots in
\* which bastion (2 s) is reached and nether is not recorded.
BastionOnlyData == [f \in {F_bastion} |-> Num(2000)]
RuleWorlds == WatchWorlds \cup {World(live, BastionOnlyData) : live \in BOOLEAN}
RuleWorldAnswers == WorldAnswers \cup {[ok |-> TRUE, world |-> w] : w \in RuleWorlds}

WatchGotRuleWorld(w) == WatchGotWorldFrom(w, RuleWorldAnswers)

\* The process is started with the base configuration, with and without
\* --force.
InitRules ==
    /\ \E flags \in {Flags(FALSE, FALSE, FALSE, FALSE), Flags(TRUE, FALSE, FALSE, TRUE)} :
          Started(flags, BaseConfig)
    /\ call = NoCall
    /\ ret = NoRet

NextRules ==
    \/ SyncStreamers
    \/ \E l \in LoopSlots : LoopGotRecentRunId(l)
    \/ \E l \in LoopSlots : LoopGotWorld(l)
    \/ \E l \in LoopSlots : LoopWake(l)
    \/ \E w \in WatchSlots : WatchWake(w)
    \/ \E w \in WatchSlots : WatchGotRuleWorld(w)
    \/ \E w \in WatchSlots : WatchAlertDone(w)
    \/ EditRules

SpecRules == InitRules /\ [][NextRules]_vars

\* Watcher w starts a tick: it comes to its call of getWorld.
TickStarts(w) == watches[w].pc # "awaitWorld" /\ watches'[w].pc = "awaitWorld"

\* Watcher w goes on in its tick, for the run of the triple.
ActsFor(w, t) ==
    /\ watches[w].pc \in {"awaitWorld", "awaitAlert"}
    /\ watches'[w] # watches[w]
    /\ watches[w].streamer = t[1]
    /\ watches[w].runId = t[2]

\* The rule set has no enabled entry for the milestone.
DisabledIn(rules, milestone) ==
    \A i \in 1..Len(rules) :
        rules[i][1] = milestone => ~Truthy(WithDefault(rules[i][2].enabled, Bool(TRUE)))

\* The step records the dedupe key of the triple or logs an outcome of a
\* notification for it.
Touched(t) ==
    \/ DedupeKey(t[3], t[1], t[2]) \in (seen' \ seen) \cup (disk' \ disk)
    \/ notifyLog'[t] # notifyLog[t]

\* C37: a tick evaluates the rule set built from the configuration of the
\* moment it starts, and a milestone disabled in that rule set gets no dedupe
\* key and no notification in the tick, force-send or not.
C37_DisabledAtTickStartIsSilent ==
    [][\A w \in WatchSlots :
          /\ TickStarts(w) =>
                watches'[w].rules = milestonesForStreamer(cfg, watches'[w].streamer)
          /\ \A t \in Triples :
                ActsFor(w, t) /\ DisabledIn(watches[w].rules, t[3]) => ~Touched(t)]_vars

\* With --force and nether disabled in the file, a tick on a snapshot with
\* nether and bastion has passed nether and awaits the delivery for bastion.
C37_Witness ==
    /\ argv.force
    /\ cfg = NetherDisabledConfig
    /\ \E w \in WatchSlots :
          /\ watches[w].pc = "awaitAlert"
          /\ watches[w].runId = 1
          /\ watches[w].idx = 3
          /\ DisabledIn(watches[w].rules, K_nether)
          /\ F_nether \in DOMAIN watches[w].world.data
    /\ DedupeKey(K_nether, S_one, 1) \notin seen
    /\ notifyLog[<<S_one, 1, K_nether>>] = <<>>
    /\ notifyLog[<<S_one, 1, K_bastion>>] = <<"sent">>

\* ------------------------------------------------------------ missingEnabledSplit

\* enabled, with its default, is truthy.
EnabledRule(rule) == Truthy(WithDefault(rule.enabled, Bool(TRUE)))

\* Entry i of the tick's rule set has no resolved split.
Unresolved(wr, i) ==
    IsNullish(getSplitWithLiveFallback(wr.world, wr.liveRun, wr.rules[i][1],
                                       wr.clocks.primary, wr.clocks.fallback).ms)

\* Some enabled entry among the first n of the tick's rule set has no
\* resolved split.
EnabledUnresolvedUpTo(wr, n) ==
    \E i \in 1..n : EnabledRule(wr.rules[i][2]) /\ Unresolved(wr, i)

\* The tick of watcher w on the given snapshot that is not live.
TickOn(w, world) == [watches[w] EXCEPT !.world = world, !.liveRun = NoLiveRun]

\* The step ends the watcher through a failure: the key file cannot be
\* written, or the delivery awaited is rejected.
EndsByFailure(w) ==
    /\ watches'[w] = FreeWatch
    /\ \/ seen' # seen /\ disk' = disk
       \/ watches[w].pc = "awaitAlert" /\ seen' = seen /\ notifyLog' = notifyLog

\* C38: while a tick awaits a delivery, missingEnabledSplit is true exactly
\* when an enabled entry already passed has no resolved split; and a tick on a
\* snapshot that is not live, of a run seen live before, leaves the watcher
\* polling only when some enabled entry of its rule set has no resolved split,
\* and then (the deadline ahead, no failure) it does: an entry that is
\* disabled never counts.
C38_MissingOnlyForEnabled ==
    /\ [](\A w \in WatchSlots :
            watches[w].pc = "awaitAlert" =>
               (watches[w].missing <=> EnabledUnresolvedUpTo(watches[w], watches[w].idx - 1)))
    /\ [][\A w \in WatchSlots : \A world \in RuleWorlds :
             TickStepOn(w, world) /\ ~world.isLive /\ watches[w].wasLive =>
                LET wr == TickOn(w, world)
                    missingEnabledSplit == EnabledUnresolvedUpTo(wr, Len(wr.rules))
                    postRunUntil == IF wr.postRunUntil = -1
                                    THEN NowMs + POST_RUN_GRACE_MS
                                    ELSE wr.postRunUntil
                IN /\ watches'[w].pc = "sleep" => missingEnabledSplit
                   /\ watches'[w] = FreeWatch /\ missingEnabledSplit /\ NowMs < postRunUntil
                         => EndsByFailure(w)]_vars

\* Nether is disabled and has no split in a snapshot that is not live; the
\* tick has passed it with the flag unset and awaits the delivery for bastion.
C38_Witness ==
    \E w \in WatchSlots :
        /\ watches[w].pc = "awaitAlert"
        /\ ~watches[w].world.isLive
        /\ watches[w].world.data = BastionOnlyData
        /\ DisabledIn(watches[w].rules, K_nether)
        /\ Unresolved(watches[w], 1)
        /\ watches[w].idx = 3
        /\ ~watches[w].missing

\* ------------------------------------------------------------ keys only on alerts

\* The records a step of watcher w in a tick on the given snapshot can run on:
\* when the snapshot arrives in the step, the live feed is read in it too.
TickRecords(w, world) ==
    IF watches[w].pc = "awaitAlert" THEN {watches[w]}
    ELSE {[watches[w] EXCEPT !.world = world, !.liveRun = liveRun] :
             liveRun \in (IF world.isLive THEN WatchLiveRuns ELSE {NoLiveRun})}

\* The entry of the milestone loop the step starts with.
FirstEntry(w) == IF watches[w].pc = "awaitAlert" THEN watches[w].idx ELSE 1

\* shouldNotifyMilestone is true for entry i of the tick's rule set.
NotifyDue(wr, i) ==
    LET rule == wr.rules[i][2]
        split == getSplitWithLiveFallback(wr.world, wr.liveRun, wr.rules[i][1],
                                          wr.clocks.primary, wr.clocks.fallback)
    IN /\ EnabledRule(rule)
       /\ ~IsNullish(split.ms)
       /\ shouldNotifyMilestone(split.ms, WithDefault(rule.enabled, Bool(TRUE)),
                                WithDefault(rule.thresholdSec, Num(DEFAULT_THRESHOLD_SEC)),
                                Bool(argv.force))

\* The entries, from the step's first on, that are for the milestone.
EntriesFor(w, wr, milestone) ==
    {i \in FirstEntry(w)..Len(wr.rules) : wr.rules[i][1] = milestone}

\* The step has gone through entry i of the milestone loop: the tick has come
\* to its sleep, or awaits a delivery for that entry or a later one, or has
\* ended the watcher without a failure.
Passed(w, i) ==
    \/ watches'[w].pc = "sleep"
    \/ watches'[w].pc = "awaitAlert" /\ watches'[w].idx > i
    \/ watches'[w] = FreeWatch /\ ~EndsByFailure(w)

\* C39: a step of a tick records a dedupe key of a milestone only if
\* shouldNotifyMilestone is true for the milestone in that tick, and it logs
\* an outcome of a notification only together with the key, one per key; a
\* tick that goes through an entry for which shouldNotifyMilestone is true
\* and whose key is not recorded yet records the key and notifies.
C39_KeysOnlyWhenNotifying ==
    [][\A w \in WatchSlots : \A world \in RuleWorlds : \A t \in Triples :
          /\ TickStepOn(w, world)
          /\ watches[w].wasLive \/ world.isLive
          /\ watches[w].streamer = t[1] /\ watches[w].runId = t[2]
          => LET key == DedupeKey(t[3], t[1], t[2])
                 recorded == key \in seen' \ seen
                 notified == notifyLog'[t] # notifyLog[t]
             IN /\ recorded =>
                      \E wr \in TickRecords(w, world) :
                         \E i \in EntriesFor(w, wr, t[3]) : NotifyDue(wr, i)
                /\ notified => /\ recorded
                               /\ Len(notifyLog'[t]) = Len(notifyLog[t]) + 1
                /\ \A i \in 1..Len(watches[w].rules) :
                      /\ \A wr \in TickRecords(w, world) :
                            i \in EntriesFor(w, wr, t[3]) /\ NotifyDue(wr, i)
                      /\ key \notin seen
                      /\ Passed(w, i)
                      => recorded /\ notified]_vars

\* Without --force and with the cutoff of nether at 1 s, a tick on a snapshot
\* with nether at 1.5 s has passed nether without a key and awaits the
\* delivery for bastion.
C39_Witness ==
    /\ ~argv.force
    /\ cfg = NetherLowCutoffConfig
    /\ \E w \in WatchSlots :
          /\ watches[w].pc = "awaitAlert"
          /\ watches[w].runId = 1
          /\ watches[w].idx = 3
          /\ watches[w].rules[1] = <<K_nether, Rule(Bool(TRUE), Num(1))>>
          /\ F_nether \in DOMAIN watches[w].world.data
    /\ DedupeKey(K_nether, S_one, 1) \notin seen
    /\ notifyLog[<<S_one, 1, K_nether>>] = <<>>

====
